---- MODULE Spec2Model ----
(***************************************************************************)
(* SignalExport: the attachment resolution and best-effort decryption      *)
(* pipeline of src/signal_export/exporter.py, with the audit tool's       *)
(* helpers of tools/decrypt_assets.py.                                     *)
(*                                                                         *)
(* Text (file names, labels, key strings) is a sequence of one-character   *)
(* strings; a byte string is a sequence of 0..255.  A file is a record     *)
(*   [head : its first 16 bytes, len : its length in bytes,                *)
(*    ent  : the Shannon entropy of its first 4096 bytes, in tenths of a   *)
(*           bit per byte, ok : whether reading it succeeds,               *)
(*    tag  : the identity of its whole content].                           *)
(***************************************************************************)
EXTENDS Integers, Sequences, FiniteSets, TLC

VARIABLES
    fs,       \* the output tree OUT/assets: path -> file
    rows,     \* the joined message/attachment rows of the database
    run,      \* which export run is in progress (1, 2, ...)
    i,        \* the next row of the run's loop over the rows
    atts,     \* the attachment records emitted so far in this run
    attempt,  \* what the last decryption attempt did (history)
    writers,  \* path -> the rows that wrote it in this run (history)
    snap,     \* the output tree as it was when this run started (history)
    probes,   \* `openssl version` invocations of this run (history)
    det,      \* whether the environment never fails (deterministic primitive)
    inp,      \* the input of a pure function under test
    out       \* its result

vars == <<fs, rows, run, i, atts, attempt, writers, snap, probes, det, inp, out>>

----------------------------------------------------------------------------
(* Python values *)

None == <<"None">>        \* the None of a text-valued expression
NoBytes == <<-1>>         \* the None of a bytes-valued expression

(* F applied to the value of v, which is computed once *)
Bind(v, F(_)) == CHOOSE r \in {F(x) : x \in {v}} : TRUE

Truthy(s) == s # None /\ s # <<>>
Or(a, b) == Bind(a, LAMBDA x : IF Truthy(x) THEN x ELSE b)

Min(a, b) == IF a < b THEN a ELSE b
Prefix(s, n) == SubSeq(s, 1, Min(n, Len(s)))
StartsWith(s, p) == Len(s) >= Len(p) /\ SubSeq(s, 1, Len(p)) = p
Contains(s, p) == \E k \in 1..(Len(s) - Len(p) + 1) : SubSeq(s, k, k + Len(p) - 1) = p

IsSpace(c) == c = " "

RECURSIVE LStrip(_)
LStrip(s) == IF s # <<>> /\ IsSpace(Head(s)) THEN LStrip(Tail(s)) ELSE s
RECURSIVE RStrip(_)
RStrip(s) == IF s # <<>> /\ IsSpace(s[Len(s)]) THEN RStrip(SubSeq(s, 1, Len(s) - 1)) ELSE s
Strip(s) == RStrip(LStrip(s))

----------------------------------------------------------------------------
(* Binary sniffer *)

MagicPNG  == <<137, 80, 78, 71>>
MagicJPEG == <<255, 216, 255>>
MagicGIF87 == <<71, 73, 70, 56, 55, 97>>
MagicGIF89 == <<71, 73, 70, 56, 57, 97>>
MagicRIFF == <<82, 73, 70, 70>>
MarkWEBP  == <<87, 69, 66, 80>>
MagicPDF  == <<37, 80, 68, 70>>

OctetStream == "application/octet-stream"

(* The extension of a file name, as posixpath.splitext finds it: the text *)
(* after the last dot, provided a non-dot character precedes that dot.    *)
RECURSIVE LastDot(_, _)
LastDot(name, k) ==
    IF k = 0 THEN 0
    ELSE IF name[k] = "." THEN k
    ELSE LastDot(name, k - 1)

ExtOf(name) ==
    Bind(LastDot(name, Len(name)), LAMBDA d :
        IF d = 0 \/ (\A k \in 1..(d - 1) : name[k] = ".") THEN <<>>
        ELSE SubSeq(name, d + 1, Len(name)))

(* mimetypes.guess_type on the extensions the model's names carry; "" is *)
(* its None.                                                             *)
GuessType(name) ==
    Bind(ExtOf(name), LAMBDA e :
    CASE e = <<"b", "i", "n">> -> OctetStream
      [] e = <<"p", "n", "g">> -> "image/png"
      [] e = <<"j", "p", "g">> -> "image/jpeg"
      [] e = <<"t", "x", "t">> -> "text/plain"
      [] e = <<"p", "d", "f">> -> "application/pdf"
      [] OTHER -> "")

SniffHead(head) ==
    IF StartsWith(head, MagicPNG) THEN "image/png"
    ELSE IF StartsWith(head, MagicJPEG) THEN "image/jpeg"
    ELSE IF Prefix(head, 6) \in {MagicGIF87, MagicGIF89} THEN "image/gif"
    ELSE IF StartsWith(head, MagicRIFF) /\ Contains(head, MarkWEBP) THEN "image/webp"
    ELSE IF StartsWith(head, MagicPDF) THEN "application/pdf"
    ELSE ""

(* The bytes are looked at before the name *)
GuessMimeSniffFirst(tree, p) ==
    Bind(IF p \in DOMAIN tree /\ tree[p].ok
         THEN SniffHead(tree[p].head) ELSE "", LAMBDA sniffed :
    Bind(GuessType(p.name), LAMBDA mtype :
        IF sniffed # "" THEN sniffed
        ELSE IF mtype # "" THEN mtype ELSE OctetStream))

GuessMime(tree, p) ==
    Bind(GuessType(p.name), LAMBDA mtype :
    Bind(IF mtype = "" /\ p \in DOMAIN tree /\ tree[p].ok
         THEN SniffHead(tree[p].head) ELSE "", LAMBDA sniffed :
        IF sniffed # "" THEN sniffed
        ELSE IF mtype # "" THEN mtype ELSE OctetStream))

(* The MIME types the sniffer can yield here, by their prefix. *)
ImageTypes == {"image/png", "image/jpeg", "image/gif", "image/webp"}
TextTypes == {"text/plain"}

IconForMime(mtype) ==
    IF mtype = "" THEN "unknown"
    ELSE IF mtype \in ImageTypes THEN "image"
    ELSE IF mtype = "application/pdf" THEN "pdf"
    ELSE IF mtype \in TextTypes THEN "text"
    ELSE "binary"

----------------------------------------------------------------------------
(* Ciphertext heuristic *)

EntropyThreshold == 74

(* The heuristic with the threshold itself counted as high entropy *)
LikelyEncryptedFileInclusive(tree, p) ==
    IF p \notin DOMAIN tree THEN FALSE
    ELSE IF ~tree[p].ok THEN FALSE
    ELSE LET b == tree[p] IN
         IF b.len = 0 THEN FALSE
         ELSE IF \/ StartsWith(b.head, MagicPNG)
                 \/ StartsWith(b.head, MagicJPEG)
                 \/ StartsWith(b.head, MagicPDF)
                 \/ Prefix(b.head, 6) \in {MagicGIF87, MagicGIF89}
              THEN FALSE
         ELSE GuessMime(tree, p) = OctetStream /\ b.ent >= EntropyThreshold

LikelyEncryptedFile(tree, p) ==
    IF p \notin DOMAIN tree THEN FALSE
    ELSE IF ~tree[p].ok THEN FALSE
    ELSE LET b == tree[p] IN
         IF b.len = 0 THEN FALSE
         ELSE IF \/ StartsWith(b.head, MagicPNG)
                 \/ StartsWith(b.head, MagicJPEG)
                 \/ StartsWith(b.head, MagicPDF)
                 \/ Prefix(b.head, 6) \in {MagicGIF87, MagicGIF89}
              THEN FALSE
         ELSE GuessMime(tree, p) = OctetStream /\ b.ent > EntropyThreshold

----------------------------------------------------------------------------
(* Label and file-name sanitizer (utils.safe) *)

MaxNameLen == 120

Unknown == <<"u", "n", "k", "n", "o", "w", "n">>
Hostile == {"/", "\\", ":", "*", "?", "\"", "<", ">", "|"}

(* re.sub(r'[/\\:*?"<>|]+', "_", name): each run of hostile characters *)
(* becomes one underscore.                                              *)
RECURSIVE SubHostile(_, _)
SubHostile(s, inRun) ==
    IF s = <<>> THEN <<>>
    ELSE IF Head(s) \in Hostile
         THEN (IF inRun THEN <<>> ELSE <<"_">>) \o SubHostile(Tail(s), TRUE)
         ELSE <<Head(s)>> \o SubHostile(Tail(s), FALSE)

Safe(name) ==
    Bind(Or(name, Unknown), LAMBDA n0 :
    Bind(Strip(n0), LAMBDA n :
    Bind(SubHostile(n, FALSE), LAMBDA t :
         Or(Prefix(t, MaxNameLen), Unknown))))

----------------------------------------------------------------------------
(* Key material: base64 (zero, one, two pad characters), then hex *)

KeyLen == 32

Rep(c, n) == [k \in 1..n |-> c]

B64Val(c) ==
    CASE c = "A" -> 0  [] c = "B" -> 1  [] c = "Q" -> 16 [] c = "Z" -> 25
      [] c = "a" -> 26 [] c = "b" -> 27 [] c = "c" -> 28 [] c = "d" -> 29
      [] c = "e" -> 30 [] c = "f" -> 31 [] c = "z" -> 51
      [] c = "0" -> 52 [] c = "1" -> 53 [] c = "9" -> 61
      [] c = "+" -> 62 [] c = "/" -> 63
      [] OTHER -> -1

HexVal(c) ==
    CASE c = "0" -> 0  [] c = "1" -> 1  [] c = "9" -> 9
      [] c = "a" -> 10 [] c = "b" -> 11 [] c = "c" -> 12 [] c = "d" -> 13
      [] c = "e" -> 14 [] c = "f" -> 15
      [] c = "A" -> 10 [] c = "B" -> 11
      [] OTHER -> -1

(* base64.b64decode(s + pad, validate=False): characters outside the     *)
(* alphabet are discarded; n data characters decode when the padding     *)
(* completes the last group of four.  NoBytes is the raised error.       *)
B64Data(s) == SelectSeq(s, LAMBDA c : B64Val(c) >= 0)

B64Byte(d, k) ==
    LET g == 4 * ((k - 1) \div 3)
        j == (k - 1) % 3
    IN  CASE j = 0 -> B64Val(d[g + 1]) * 4 + B64Val(d[g + 2]) \div 16
          [] j = 1 -> (B64Val(d[g + 2]) % 16) * 16 + B64Val(d[g + 3]) \div 4
          [] j = 2 -> (B64Val(d[g + 3]) % 4) * 64 + B64Val(d[g + 4])

B64Decode(s, pad) ==
    Bind(B64Data(s), LAMBDA d :
        IF \/ Len(d) % 4 = 0
           \/ (Len(d) % 4 = 3 /\ pad >= 1)
           \/ (Len(d) % 4 = 2 /\ pad >= 2)
        THEN [k \in 1..((3 * Len(d)) \div 4) |-> B64Byte(d, k)]
        ELSE NoBytes)

(* bytes.fromhex: pairs of hex digits, white space allowed between pairs; *)
(* HexFrom reads s from position k on.                                    *)
RECURSIVE HexFrom(_, _)
HexFrom(s, k) ==
    IF k > Len(s) THEN <<>>
    ELSE IF IsSpace(s[k]) THEN HexFrom(s, k + 1)
    ELSE IF k + 1 <= Len(s) /\ HexVal(s[k]) >= 0 /\ HexVal(s[k + 1]) >= 0
         THEN Bind(HexFrom(s, k + 2), LAMBDA rest :
                  IF rest = NoBytes THEN NoBytes
                  ELSE <<HexVal(s[k]) * 16 + HexVal(s[k + 1])>> \o rest)
         ELSE NoBytes

FromHex(s) == HexFrom(s, 1)

(* The loop over pad in ("", "=", "=="): the first decoding that is not  *)
(* empty is returned; with none, the hex decoding.                       *)
RECURSIVE PadLoop(_, _)
PadLoop(t, pad) ==
    IF pad > 2 THEN FromHex(t)
    ELSE Bind(B64Decode(t, pad), LAMBDA o :
             IF o # NoBytes /\ o # <<>> THEN o ELSE PadLoop(t, pad + 1))

B64OrHexToBytes(s) ==
    IF ~Truthy(s) THEN NoBytes ELSE Bind(Strip(s), LAMBDA t : PadLoop(t, 0))

(* One candidate of the loop of best_effort_decrypt / best_key *)
KeyOf(s) ==
    Bind(IF Truthy(s) THEN B64OrHexToBytes(s) ELSE NoBytes, LAMBDA b :
        IF b # NoBytes /\ b # <<>> /\ Len(b) >= KeyLen THEN SubSeq(b, 1, KeyLen) ELSE NoBytes)

(* The loop over the candidates taken in the other order *)
ExtractKeyAltFirst(local_key, key_alt) ==
    Bind(KeyOf(key_alt), LAMBDA first :
        IF first # NoBytes THEN first ELSE KeyOf(local_key))

ExtractKey(local_key, key_alt) ==
    Bind(KeyOf(local_key), LAMBDA first :
        IF first # NoBytes THEN first ELSE KeyOf(key_alt))

----------------------------------------------------------------------------
(* Files and the external cryptographic primitive *)

File(head, len, ent, tag) == [head |-> head, len |-> len, ent |-> ent, ok |-> TRUE, tag |-> tag]
NoFile == [head |-> <<>>, len |-> -1, ent |-> 0, ok |-> FALSE, tag |-> "nofile"]

Path(dir, name) == [dir |-> dir, name |-> name]
NoPath == Path(None, None)

Put(tree, p, f) == [q \in DOMAIN tree \cup {p} |-> IF q = p THEN f ELSE tree[q]]
Remove(tree, p) == [q \in DOMAIN tree \ {p} |-> tree[q]]

(* Key strings of the database, and the keys they encode *)
StrA == Rep("A", 44)                  \* base64, padded length: 33 bytes
StrB == Rep("/", 43)                  \* base64 with its padding stripped: 32 bytes
StrShort == Rep("Q", 40)              \* base64 of 30 bytes: too short for a key
StrHex == Rep("a", 64)                \* the hex digits of 32 bytes
KeyA == KeyOf(StrA)
KeyB == KeyOf(StrB)

(* Attachment contents: ciphertexts and the plaintexts behind them *)
PlainPng == File(MagicPNG \o <<13, 10, 26, 10>>, 2000, 78, "png")
PlainTxt == File(<<104, 105>>, 300, 41, "txt")
Garbage  == File(<<7, 201, 33, 150>>, 1984, 79, "garbage")
CtA      == File(<<17, 203, 94, 6>>, 2028, 79, "ctA")
CtB      == File(<<90, 14, 188, 241>>, 320, 77, "ctB")
CtTiny   == File(<<250, 3, 77, 129>>, 30, 48, "ctTiny")

(* What `openssl enc -d` writes for a key and a ciphertext when it exits  *)
(* with status 0; NoFile when it exits with another status.  CtA opens    *)
(* under KeyA in both modes (in CBC mode to garbage), CtB in CBC mode     *)
(* only.                                                                  *)
GcmPlain(key, data) ==
    IF data.tag = "ctA" /\ key = KeyA THEN PlainPng ELSE NoFile

CbcPlain(key, data) ==
    IF data.tag = "ctA" /\ key = KeyA THEN Garbage
    ELSE IF data.tag = "ctB" /\ key = KeyA THEN PlainTxt
    ELSE IF data.tag = "ctB" /\ key = KeyB THEN Garbage
    ELSE NoFile

(* How the environment treats one decryption attempt:                     *)
(*   avail: `openssl version` can be run;  read: the source can be read;  *)
(*   gcm, cbc: "run" (the primitive runs to its own result), "exit" (it   *)
(*   exits non-zero), "raise" (opening dst or starting it raises);        *)
(*   copy: shutil.copy2 succeeds.                                         *)
Outcomes == {"run", "exit", "raise"}
Calm == [avail |-> TRUE, read |-> TRUE, gcm |-> "run", cbc |-> "run", copy |-> TRUE]
Faults(e) == Cardinality({f \in DOMAIN Calm : e[f] # Calm[f]})
MaxFaults == 1
Envs == {e \in [avail : BOOLEAN, read : BOOLEAN, gcm : Outcomes, cbc : Outcomes,
                copy : BOOLEAN] : Faults(e) <= MaxFaults}

GcmMinLen == 28
CbcMinLen == 32

EmptyFile == File(<<>>, 0, 0, "empty")

(* The try block of try_decrypt_gcm / try_decrypt_cbc: read the source,   *)
(* reject a short one, open dst for writing, run the primitive into it,   *)
(* keep dst only when the exit status is 0 and dst is not empty.          *)
(* The result: ok, the tree after, whether an exception was raised,       *)
(* whether dst was opened for writing.                                    *)
UnpackBody(tree, src, dst, minLen, how, plain) ==
    LET base == [ok |-> FALSE, tree |-> tree, raised |-> FALSE, wrote |-> FALSE] IN
    IF how.read = FALSE \/ ~tree[src].ok
    THEN [base EXCEPT !.raised = TRUE]
    ELSE IF tree[src].len < minLen THEN base
    ELSE IF how.mode = "raise"
    THEN [base EXCEPT !.raised = TRUE, !.wrote = TRUE, !.tree = Put(tree, dst, EmptyFile)]
    ELSE LET written == IF how.mode = "run" THEN plain ELSE NoFile
             ok == written # NoFile /\ written.len > 0
         IN  [base EXCEPT !.ok = ok, !.wrote = TRUE,
                          !.tree = IF ok THEN Put(tree, dst, written) ELSE Remove(tree, dst)]

(* An except clause that returns False and leaves dst as it is *)
ExceptKeep(r, dst) ==
    IF r.raised THEN [r EXCEPT !.ok = FALSE, !.raised = FALSE] ELSE r

(* The except clause: unlink dst when it exists, return False *)
ExceptUnlink(r, dst) ==
    IF r.raised
    THEN [r EXCEPT !.ok = FALSE, !.raised = FALSE, !.tree = Remove(r.tree, dst)]
    ELSE r

(* try_decrypt_gcm opening dst for exclusive creation: an existing dst   *)
(* raises, and the except clause unlinks it                              *)
TryDecryptGcmExclusive(tree, src, dst, key32, e) ==
    IF dst \in DOMAIN tree /\ e.read /\ tree[src].ok /\ tree[src].len >= GcmMinLen
    THEN [ok |-> FALSE, tree |-> Remove(tree, dst), raised |-> FALSE, wrote |-> FALSE]
    ELSE Bind(UnpackBody(tree, src, dst, GcmMinLen, [read |-> e.read, mode |-> e.gcm],
                         GcmPlain(key32, tree[src])),
              LAMBDA r : ExceptUnlink(r, dst))

TryDecryptGcm(tree, src, dst, key32, e) ==
    Bind(UnpackBody(tree, src, dst, GcmMinLen, [read |-> e.read, mode |-> e.gcm],
                    GcmPlain(key32, tree[src])),
         LAMBDA r : ExceptUnlink(r, dst))

TryDecryptCbc(tree, src, dst, key32, e) ==
    Bind(UnpackBody(tree, src, dst, CbcMinLen, [read |-> e.read, mode |-> e.cbc],
                    CbcPlain(key32, tree[src])),
         LAMBDA r : ExceptUnlink(r, dst))

DecPrefix == <<"d", "e", "c", "_">>

(* best_effort_decrypt.  The result: the path returned (NoPath for None), *)
(* the tree after, the unpackings entered in order with their outcomes,   *)
(* the key used, whether an exception left the function, whether dst was  *)
(* opened for writing, the `openssl version` probes made.                 *)
NoDecrypt == [result |-> NoPath, log |-> <<>>, key |-> NoBytes, raised |-> FALSE,
              wrote |-> FALSE, probes |-> 0, dst |-> NoPath]

(* Line 169 with its operands exchanged: CBC first, GCM after it failed *)
UnpackingsCbcFirst(tree, src, dst, key_bytes, e) ==
    Bind(TryDecryptCbc(tree, src, dst, key_bytes, e), LAMBDA c :
        IF c.ok
        THEN [result |-> dst, tree |-> c.tree, key |-> key_bytes,
              log |-> <<[mode |-> "cbc", ok |-> TRUE]>>,
              raised |-> c.raised, wrote |-> c.wrote, probes |-> 1, dst |-> dst]
        ELSE Bind(TryDecryptGcm(c.tree, src, dst, key_bytes, e), LAMBDA g :
                 [result |-> IF g.ok THEN dst ELSE NoPath,
                  tree |-> g.tree, key |-> key_bytes,
                  log |-> <<[mode |-> "cbc", ok |-> FALSE], [mode |-> "gcm", ok |-> g.ok]>>,
                  raised |-> g.raised \/ c.raised,
                  wrote |-> g.wrote \/ c.wrote, probes |-> 1, dst |-> dst]))

(* Line 169: GCM, and CBC only when GCM returned False *)
Unpackings(tree, src, dst, key_bytes, e) ==
    Bind(TryDecryptGcm(tree, src, dst, key_bytes, e), LAMBDA g :
        IF g.ok
        THEN [result |-> dst, tree |-> g.tree, key |-> key_bytes,
              log |-> <<[mode |-> "gcm", ok |-> TRUE]>>,
              raised |-> g.raised, wrote |-> g.wrote, probes |-> 1, dst |-> dst]
        ELSE Bind(TryDecryptCbc(g.tree, src, dst, key_bytes, e), LAMBDA c :
                 [result |-> IF c.ok THEN dst ELSE NoPath,
                  tree |-> c.tree, key |-> key_bytes,
                  log |-> <<[mode |-> "gcm", ok |-> FALSE], [mode |-> "cbc", ok |-> c.ok]>>,
                  raised |-> g.raised \/ c.raised,
                  wrote |-> g.wrote \/ c.wrote, probes |-> 1, dst |-> dst]))

BestEffortDecrypt(tree, src, dest_dir, name_hint, local_key, key_alt, e) ==
    IF ~e.avail \/ src \notin DOMAIN tree
    THEN [NoDecrypt EXCEPT !.probes = 1] @@ [tree |-> tree]
    ELSE Bind(ExtractKey(local_key, key_alt), LAMBDA key_bytes :
             IF key_bytes = NoBytes
             THEN [NoDecrypt EXCEPT !.probes = 1] @@ [tree |-> tree]
             ELSE Unpackings(tree, src, Path(dest_dir, DecPrefix \o name_hint), key_bytes, e))

----------------------------------------------------------------------------
(* The attachment store and the database *)

SrcA == <<"a", "1">>
SrcB == <<"b", "2">>
SrcP == <<"p", "3">>
SrcGone == <<"z", "9">>

(* The attachment store SRC: relative path -> file; read only *)
Store == (SrcA :> CtA) @@ (SrcB :> CtB) @@ (SrcP :> PlainPng)

(* hashlib.sha1(str(srcp)).hexdigest()[:8]: eight hex digits; the paths  *)
(* of the store have digests that differ in them                          *)
Sha1Hex8(rel) ==
    CASE rel = SrcA -> <<"2", "e", "5", "c", "0", "7", "d", "1">>
      [] rel = SrcB -> <<"9", "b", "4", "f", "a", "a", "6", "3">>
      [] rel = SrcP -> <<"d", "e", "c", "0", "1", "7", "7", "e">>
      [] OTHER -> <<"0", "0", "0", "0", "0", "0", "0", "0">>

(* Path.name: the text after the last "/" *)
RECURSIVE PathName(_)
PathName(rel) ==
    IF \E k \in 1..Len(rel) : rel[k] = "/"
    THEN PathName(Tail(rel)) ELSE rel

(* conv_name: conversation id -> display label *)
ConvName(cid) ==
    CASE cid = "c1" -> <<"A", "l">>
      [] cid = "c2" -> <<"B", "o">>
      [] cid = "c4" -> <<".", ".">>
      [] cid = "c5" -> <<".">>
      [] OTHER -> None

ConvPrefix == <<"c", "o", "n", "v", ":">>
(* str(cid) of a conversation id *)
CidText(cid) ==
    CASE cid = "c1" -> <<"c", "1">>
      [] cid = "c2" -> <<"c", "2">>
      [] OTHER -> <<"c", "3">>
ThreadLabel(cid) == Safe(Or(ConvName(cid), ConvPrefix \o CidText(cid)))

NameDoc == <<"d", "o", "c">>
NameBin == <<"x", ".", "b", "i", "n">>

----------------------------------------------------------------------------
(* run_export: one row of the loop over messages and attachments *)

NoAttempt == [made |-> FALSE, src |-> NoPath, result |-> NoPath, log |-> <<>>,
              key |-> NoBytes, raised |-> FALSE, wrote |-> FALSE, dst |-> NoPath,
              local_key |-> None, key_alt |-> None]

(* The attachment part of the loop body for row r, under environment e.   *)
(* The result: the tree after, the records appended to the message's      *)
(* atts, the decryption attempt made, the paths written, the probes.      *)
NoExport == [atts |-> <<>>, attempt |-> NoAttempt, written |-> {}, probes |-> 0]

Blank(r) == [name |-> Or(r.fileName, <<>>), path |-> NoPath, mime |-> "",
             icon |-> "unknown", likelyEncrypted |-> FALSE, originalPath |-> NoPath]

(* The record appended with lines 480-482 left out: the MIME type, the   *)
(* icon and the flag stay those of the verbatim copy                     *)
EmitStale(r, dest, copied, mtype, enc, call, dec) ==
    Bind(dec.result # NoPath /\ dec.result \in DOMAIN dec.tree, LAMBDA good :
        [tree |-> dec.tree,
         atts |-> <<[name |-> Or(r.fileName, <<>>),
                     path |-> IF good THEN dec.result
                              ELSE IF dec.raised THEN NoPath ELSE dest,
                     mime |-> mtype,
                     icon |-> IconForMime(mtype),
                     likelyEncrypted |-> enc,
                     originalPath |-> IF good /\ ~dec.raised THEN dest ELSE NoPath]>>,
         attempt |-> IF call
                     THEN [made |-> TRUE, src |-> dest, result |-> dec.result,
                           log |-> dec.log, key |-> dec.key, raised |-> dec.raised,
                           wrote |-> dec.wrote, dst |-> dec.dst,
                           local_key |-> r.localKey, key_alt |-> r.key_alt]
                     ELSE NoAttempt,
         written |-> (IF copied THEN {dest} ELSE {}) \cup
                     (IF dec.wrote THEN {dec.dst} ELSE {}),
         probes |-> dec.probes])

(* From the decryption (dec) to the record appended *)
Emit(r, dest, copied, mtype, enc, call, dec) ==
    Bind(dec.result # NoPath /\ dec.result \in DOMAIN dec.tree, LAMBDA good :
    Bind(IF good THEN GuessMime(dec.tree, dec.result) ELSE mtype, LAMBDA mtype2 :
        [tree |-> dec.tree,
         atts |-> <<[name |-> Or(r.fileName, <<>>),
                     path |-> IF good THEN dec.result
                              ELSE IF dec.raised THEN NoPath ELSE dest,
                     mime |-> mtype2,
                     icon |-> IconForMime(mtype2),
                     likelyEncrypted |-> IF good THEN FALSE ELSE enc,
                     originalPath |-> IF good /\ ~dec.raised THEN dest ELSE NoPath]>>,
         attempt |-> IF call
                     THEN [made |-> TRUE, src |-> dest, result |-> dec.result,
                           log |-> dec.log, key |-> dec.key, raised |-> dec.raised,
                           wrote |-> dec.wrote, dst |-> dec.dst,
                           local_key |-> r.localKey, key_alt |-> r.key_alt]
                     ELSE NoAttempt,
         written |-> (IF copied THEN {dest} ELSE {}) \cup
                     (IF dec.wrote THEN {dec.dst} ELSE {}),
         probes |-> dec.probes]))

(* From the copy to the decryption: t1 is the tree with dest in it *)
Resolve(t1, r, e, label, base, dest, copied) ==
    Bind(GuessMime(t1, dest), LAMBDA mtype :
    Bind(LikelyEncryptedFile(t1, dest), LAMBDA enc :
    Bind(enc /\ (Truthy(r.localKey) \/ Truthy(r.key_alt)), LAMBDA call :
    Bind(IF call
         THEN BestEffortDecrypt(t1, dest, label, base, r.localKey, r.key_alt, e)
         ELSE NoDecrypt @@ [tree |-> t1],
         LAMBDA dec : Emit(r, dest, copied, mtype, enc, call, dec)))))

CopyTo(tree, r, e, label, base, dest) ==
    IF dest \notin DOMAIN tree /\ ~e.copy
    THEN [NoExport EXCEPT !.atts = <<Blank(r)>>] @@ [tree |-> tree]
    ELSE Bind(IF dest \notin DOMAIN tree THEN Put(tree, dest, Store[r.relPath]) ELSE tree,
              LAMBDA t1 : Resolve(t1, r, e, label, base, dest, dest \notin DOMAIN tree))

ExportAttachment(tree, r, e) ==
    IF ~Truthy(r.relPath) THEN NoExport @@ [tree |-> tree]
    ELSE IF r.relPath \notin DOMAIN Store
    THEN [NoExport EXCEPT !.atts = <<Blank(r)>>] @@ [tree |-> tree]
    ELSE Bind(ThreadLabel(r.cid), LAMBDA label :
         Bind(Safe(Or(r.fileName, PathName(r.relPath))), LAMBDA base :
         Bind(Path(label, Sha1Hex8(r.relPath) \o <<"_">> \o base), LAMBDA dest :
              CopyTo(tree, r, e, label, base, dest))))

----------------------------------------------------------------------------
(* The export pipeline, run after run over an unchanged database *)

MaxRows == 2
MaxRuns == 2

EmptyTree == [p \in {} |-> NoFile]

Row(c, n, rel, lk, ka) == [cid |-> c, fileName |-> n, relPath |-> rel, localKey |-> lk, key_alt |-> ka]

(* The rows a database may hold: ciphertexts with the right key, a short  *)
(* first candidate, a wrong key, no key; a plain image; a source missing  *)
(* from the store; a message without attachment; a second conversation.   *)
RowSet == {Row("c1", NameDoc, SrcA, StrA, None),
           Row("c1", NameDoc, SrcB, StrA, None),
           Row("c1", NameDoc, SrcB, StrShort, StrB),
           Row("c1", None, SrcA, StrShort, StrB),
           Row("c1", NameDoc, SrcA, None, None),
           Row("c1", NameDoc, SrcP, StrA, None),
           Row("c1", NameBin, SrcP, None, None),
           Row("c1", NameDoc, SrcGone, StrA, None),
           Row("c1", None, None, None, None),
           Row("c2", NameDoc, SrcA, None, StrA)}

RowSeqs == UNION {[1..n -> RowSet] : n \in 1..MaxRows}

NoProbe == [x |-> 0]

Init ==
    /\ fs = EmptyTree
    /\ rows \in RowSeqs
    /\ run = 1
    /\ i = 1
    /\ atts = <<>>
    /\ attempt = NoAttempt
    /\ writers = [p \in {} |-> {}]
    /\ snap = EmptyTree
    /\ probes = 0
    /\ det \in BOOLEAN
    /\ inp = NoProbe
    /\ out = NoProbe

ProcessRow ==
    /\ i <= Len(rows)
    /\ \E e \in (IF det THEN {Calm} ELSE Envs) :
       \E o \in {ExportAttachment(fs, rows[i], e)} :
         /\ fs' = o.tree
         /\ atts' = atts \o o.atts
         /\ attempt' = o.attempt
         /\ writers' = [p \in DOMAIN writers \cup o.written |->
                          (IF p \in DOMAIN writers THEN writers[p] ELSE {}) \cup
                          (IF p \in o.written THEN {i} ELSE {})]
         /\ probes' = probes + o.probes
    /\ i' = i + 1
    /\ UNCHANGED <<rows, run, snap, det, inp, out>>

StartRun ==
    /\ i > Len(rows)
    /\ run < MaxRuns
    /\ run' = run + 1
    /\ i' = 1
    /\ atts' = <<>>
    /\ attempt' = NoAttempt
    /\ writers' = [p \in {} |-> {}]
    /\ snap' = fs
    /\ probes' = 0
    /\ UNCHANGED <<fs, rows, det, inp, out>>

Next == ProcessRow \/ StartRun

Spec == Init /\ [][Next]_vars

(* The runs in which the primitive and the file system never fail *)
InitDet == Init /\ det
SpecDet == InitDet /\ [][Next]_vars

RunDone == i > Len(rows)

----------------------------------------------------------------------------
(* The ciphertext heuristic on one file: every name, head and entropy *)

Idle == [done |-> FALSE]

ProbeDir == <<"t">>

SniffNames == {<<"f">>, <<"f", ".", "b", "i", "n">>, <<"f", ".", "p", "n", "g">>,
               <<"f", ".", "t", "x", "t">>, <<".", "b", "i", "n">>}

SniffHeads == {MagicPNG \o <<13, 10, 26, 10>>,
               MagicJPEG \o <<224, 0, 16>>,
               MagicGIF87 \o <<1, 0>>,
               MagicGIF89 \o <<1, 0>>,
               MagicRIFF \o <<36, 8, 0, 0>> \o MarkWEBP \o <<86, 80, 56, 32>>,
               MagicRIFF \o <<36, 8, 0, 0, 87, 65, 86, 69>>,
               MagicPDF \o <<45, 49, 46, 52>>,
               <<17, 203, 94, 6, 250, 3, 77, 129>>}

SniffEnts == {0, 41, 73, 74, 75, 80}

SniffFiles == {File(h, 4096, en, "x") : h \in SniffHeads, en \in SniffEnts}
              \cup {File(<<71, 73, 70>>, 3, 15, "x"), EmptyFile}

InitSniff ==
    /\ inp \in [name : SniffNames, file : SniffFiles, there : BOOLEAN, ok : BOOLEAN]
    /\ fs = IF inp.there
            THEN Put(EmptyTree, Path(ProbeDir, inp.name), [inp.file EXCEPT !.ok = inp.ok])
            ELSE EmptyTree
    /\ out = Idle
    /\ rows = <<>> /\ run = 0 /\ i = 0 /\ atts = <<>> /\ attempt = NoAttempt
    /\ writers = [p \in {} |-> {}] /\ snap = EmptyTree /\ probes = 0 /\ det = TRUE

Sniff ==
    /\ out = Idle
    /\ "name" \in DOMAIN inp
    /\ out' = [done |-> TRUE,
               enc |-> LikelyEncryptedFile(fs, Path(ProbeDir, inp.name)),
               mime |-> GuessMime(fs, Path(ProbeDir, inp.name))]
    /\ UNCHANGED <<fs, rows, run, i, atts, attempt, writers, snap, probes, det, inp>>

NextSniff == Sniff

SpecSniff == InitSniff /\ [][NextSniff]_vars

----------------------------------------------------------------------------
(* Key extraction inside one decryption attempt: every pair of candidates *)

StrOdd == Rep("A", 45)                \* one data character too many for base64
StrSpaced == <<" ">> \o StrA \o <<" ">>
StrJunk == <<"!", "!">>

KeyCands == {None, <<>>, StrA, StrB, StrShort, StrHex, StrOdd, StrSpaced, StrJunk}

ProbeSrc == Path(ProbeDir, <<"s">>)
ProbeDst == Path(ProbeDir, DecPrefix \o <<"s">>)

(* The tree before the attempt: the source, and with stale a file left   *)
(* at the destination by an earlier attempt                              *)
KeyTree(in) ==
    IF in.stale THEN Put(Put(EmptyTree, ProbeSrc, in.file), ProbeDst, PlainTxt)
    ELSE Put(EmptyTree, ProbeSrc, in.file)

InitKey ==
    /\ inp \in [local_key : KeyCands, key_alt : KeyCands, file : {CtA, CtB, CtTiny},
                stale : BOOLEAN]
    /\ fs = KeyTree(inp)
    /\ out = Idle
    /\ rows = <<>> /\ run = 0 /\ i = 0 /\ atts = <<>> /\ attempt = NoAttempt
    /\ writers = [p \in {} |-> {}] /\ snap = EmptyTree /\ probes = 0 /\ det = FALSE

Decrypt ==
    /\ out = Idle
    /\ "local_key" \in DOMAIN inp
    /\ \E e \in Envs :
       \E o \in {BestEffortDecrypt(fs, ProbeSrc, ProbeDir, <<"s">>,
                                   inp.local_key, inp.key_alt, e)} :
         /\ fs' = o.tree
         /\ out' = [done |-> TRUE, env |-> e, result |-> o.result, key |-> o.key,
                    log |-> o.log, raised |-> o.raised, wrote |-> o.wrote]
    /\ UNCHANGED <<rows, run, i, atts, attempt, writers, snap, probes, det, inp>>

NextKey == Decrypt

SpecKey == InitKey /\ [][NextKey]_vars

----------------------------------------------------------------------------
(* _parse_avatar_info_from_json.  A JSON value is [t, s]: t its type      *)
(* ("null", "str", "num"), s the text of a string; a container adds d,    *)
(* its fields when it is an object (t = "dict"); a field an object lacks  *)
(* reads as null, as dict.get gives None.                                 *)

Containers == <<"profileAvatarPath", "avatarPath", "profileAvatar">>
PathFields == <<"path", "avatarPath", "filePath">>
KeyFields == <<"localKey", "key", "profileKey", "attachmentKey", "keyMaterial">>

Range(f) == {f[x] : x \in DOMAIN f}
AllFields == Range(PathFields) \cup Range(KeyFields)

JNull == [t |-> "null", s |-> None]
JNum == [t |-> "num", s |-> None]
JStr(s) == [t |-> "str", s |-> s]
IsStr(x) == x.t = "str"
EmptyDict == [f \in AllFields |-> JNull]

NoAvatar == [path |-> None, key1 |-> None, key2 |-> None]

(* Lines 185-187, 195-197: the first string among the path fields, while *)
(* path is unset                                                         *)
RECURSIVE ScanPath(_, _, _)
ScanPath(d, path, n) ==
    IF n > Len(PathFields) THEN path
    ELSE Bind(IF IsStr(d[PathFields[n]]) /\ ~Truthy(path) THEN d[PathFields[n]].s ELSE path,
              LAMBDA p : ScanPath(d, p, n + 1))

(* Lines 188-190: the first string among the key fields, while key1 is unset *)
RECURSIVE ScanKey1(_, _, _)
ScanKey1(d, key1, n) ==
    IF n > Len(KeyFields) THEN key1
    ELSE Bind(IF IsStr(d[KeyFields[n]]) /\ ~Truthy(key1) THEN d[KeyFields[n]].s ELSE key1,
              LAMBDA k : ScanKey1(d, k, n + 1))

(* Lines 198-203: each string among the key fields goes to key1 when it  *)
(* is unset, else to key2 when that is unset                             *)
RECURSIVE ScanKeys(_, _, _)
ScanKeys(d, st, n) ==
    IF n > Len(KeyFields) THEN st
    ELSE Bind(IF ~IsStr(d[KeyFields[n]]) THEN st
              ELSE IF ~Truthy(st.key1) THEN [st EXCEPT !.key1 = d[KeyFields[n]].s]
              ELSE IF ~Truthy(st.key2) THEN [st EXCEPT !.key2 = d[KeyFields[n]].s]
              ELSE st,
              LAMBDA t : ScanKeys(d, t, n + 1))

(* Lines 182-192: the loop over the containers *)
RECURSIVE FirstPass(_, _, _)
FirstPass(obj, st, n) ==
    IF n > Len(Containers) THEN st
    ELSE Bind(obj[Containers[n]], LAMBDA v :
         Bind(IF v.t = "dict"
              THEN [st EXCEPT !.path = ScanPath(v.d, st.path, 1),
                              !.key1 = ScanKey1(v.d, st.key1, 1)]
              ELSE IF IsStr(v) /\ ~Truthy(st.path) THEN [st EXCEPT !.path = v.s]
              ELSE st,
              LAMBDA t : FirstPass(obj, t, n + 1)))

(* Lines 193-203: profileAvatar once more; `or {}` makes a falsy value an *)
(* object without fields                                                  *)
SecondPass(obj, st) ==
    Bind(obj["profileAvatar"], LAMBDA pa :
        IF pa.t = "dict"
        THEN Bind([st EXCEPT !.path = ScanPath(pa.d, st.path, 1)],
                  LAMBDA t : ScanKeys(pa.d, t, 1))
        ELSE st)

(* js.kind: "none" (None or ""), "bad" (json.loads raises), "list" (a     *)
(* JSON value without .get), "obj"                                        *)
ParseAvatarInfoFromJson(js) ==
    IF js.kind # "obj" THEN NoAvatar
    ELSE Bind(FirstPass(js.obj, NoAvatar, 1), LAMBDA st : SecondPass(js.obj, st))

(* The blobs: at most MaxFields fields populated over the containers *)
MaxFields == 2

K1 == <<"K", "1">>
K2 == <<"K", "2">>

FieldVals == {JStr(K1), JStr(K2), JStr(<<>>), JNum}
InputFields == {"path", "localKey", "key", "keyMaterial"}
Slots == Range(Containers) \X InputFields
NoSlot == <<"none", "none">>
SlotSets(n) == {Range(f) \ {NoSlot} : f \in [1..n -> Slots \cup {NoSlot}]}
Shapes == [Range(Containers) -> {"null", "str", "num", "dict"}]

(* The object whose populated fields are vals, and whose other containers *)
(* have the types of shape                                                *)
Blob(vals, shape) ==
    [c \in Range(Containers) |->
        IF \E sl \in DOMAIN vals : sl[1] = c \/ shape[c] = "dict"
        THEN [t |-> "dict", s |-> None,
              d |-> [f \in AllFields |->
                        IF <<c, f>> \in DOMAIN vals THEN vals[<<c, f>>] ELSE JNull]]
        ELSE [t |-> shape[c], s |-> IF shape[c] = "str" THEN <<"p">> ELSE None,
              d |-> EmptyDict]]

Blobs(n) == {Blob(vals, shape) : vals \in UNION {[S -> FieldVals] : S \in SlotSets(n)},
                                 shape \in Shapes}

InitAvatar ==
    /\ inp \in [kind : {"obj"}, obj : Blobs(MaxFields)]
              \cup [kind : {"none", "bad", "list"}, obj : {Blob(<<>>, [c \in Range(Containers) |-> "null"])}]
    /\ out = Idle
    /\ fs = EmptyTree
    /\ rows = <<>> /\ run = 0 /\ i = 0 /\ atts = <<>> /\ attempt = NoAttempt
    /\ writers = [p \in {} |-> {}] /\ snap = EmptyTree /\ probes = 0 /\ det = TRUE

ParseAvatar ==
    /\ out = Idle
    /\ "kind" \in DOMAIN inp
    /\ \E o \in {ParseAvatarInfoFromJson(inp)} :
         out' = [done |-> TRUE, path |-> o.path, key1 |-> o.key1, key2 |-> o.key2]
    /\ UNCHANGED <<fs, rows, run, i, atts, attempt, writers, snap, probes, det, inp>>

NextAvatar == ParseAvatar

SpecAvatar == InitAvatar /\ [][NextAvatar]_vars

----------------------------------------------------------------------------
(* Text: code points and case *)

(* str.lower, letter by letter *)
UpperCase == <<"A", "B", "C", "D", "E", "F", "G", "H", "I", "J", "K", "L", "M", "N", "O", "P", "Q", "R", "S", "T", "U", "V", "W", "X", "Y", "Z">>
LowerCase == <<"a", "b", "c", "d", "e", "f", "g", "h", "i", "j", "k", "l", "m", "n", "o", "p", "q", "r", "s", "t", "u", "v", "w", "x", "y", "z">>
Digits == <<"0", "1", "2", "3", "4", "5", "6", "7", "8", "9">>

IsUpper(c) == \E k \in 1..Len(UpperCase) : UpperCase[k] = c
IsDigit(c) == \E k \in 1..Len(Digits) : Digits[k] = c

LowerChar(c) == IF IsUpper(c)
                THEN LowerCase[CHOOSE k \in 1..Len(UpperCase) : UpperCase[k] = c]
                ELSE c
Lower(s) == [k \in 1..Len(s) |-> LowerChar(s[k])]

(* str.strip with no argument: spaces, tabs and line ends go *)
IsWhite(c) == c \in {" ", "\t", "\n", "\r"}
RECURSIVE LStripW(_)
LStripW(s) == IF s # <<>> /\ IsWhite(Head(s)) THEN LStripW(Tail(s)) ELSE s
RECURSIVE RStripW(_)
RStripW(s) == IF s # <<>> /\ IsWhite(s[Len(s)]) THEN RStripW(SubSeq(s, 1, Len(s) - 1)) ELSE s
StripW(s) == RStripW(LStripW(s))

----------------------------------------------------------------------------
(* run_export: the inline message of a row of the messages table *)

CallPatterns ==
    <<<<"i", "n", "c", "o", "m", "i", "n", "g", " ", "c", "a", "l", "l">>, <<"o", "u", "t", "g", "o", "i", "n", "g", " ", "c", "a", "l", "l">>, <<"m", "i", "s", "s", "e", "d", " ", "c", "a", "l", "l">>,
      <<"i", "n", "c", "o", "m", "i", "n", "g", " ", "v", "o", "i", "c", "e", " ", "c", "a", "l", "l">>, <<"o", "u", "t", "g", "o", "i", "n", "g", " ", "v", "o", "i", "c", "e", " ", "c", "a", "l", "l">>, <<"m", "i", "s", "s", "e", "d", " ", "v", "o", "i", "c", "e", " ", "c", "a", "l", "l">>,
      <<"i", "n", "c", "o", "m", "i", "n", "g", " ", "v", "i", "d", "e", "o", " ", "c", "a", "l", "l">>, <<"o", "u", "t", "g", "o", "i", "n", "g", " ", "v", "i", "d", "e", "o", " ", "c", "a", "l", "l">>, <<"m", "i", "s", "s", "e", "d", " ", "v", "i", "d", "e", "o", " ", "c", "a", "l", "l">>,
      <<"v", "o", "i", "c", "e", " ", "c", "a", "l", "l">>, <<"v", "i", "d", "e", "o", " ", "c", "a", "l", "l">>>>
ExactMatches == {<<"c", "a", "l", "l">>, <<"a", "u", "d", "i", "o">>, <<"v", "i", "d", "e", "o">>}

(* Any body that has "call" in it suggests a call *)
LooksCallLoose(t, lb) ==
    \/ Contains(t, <<"c", "a", "l", "l">>) \/ t = <<"c", "a", "l", "l", "-", "h", "i", "s", "t", "o", "r", "y">>
    \/ Contains(lb, <<"c", "a", "l", "l">>) \/ lb \in ExactMatches

(* t: the lower-cased type, lb: the stripped, lower-cased body *)
LooksCall(t, lb) ==
    \/ Contains(t, <<"c", "a", "l", "l">>) \/ t = <<"c", "a", "l", "l", "-", "h", "i", "s", "t", "o", "r", "y">>
    \/ (\E k \in 1..Len(CallPatterns) : Contains(lb, CallPatterns[k]))
    \/ lb \in ExactMatches

IsVideo(t, lb) == Contains(t, <<"v", "i", "d", "e", "o">>) \/ Contains(lb, <<"v", "i", "d", "e", "o">>) \/ lb = <<"v", "i", "d", "e", "o">>
IsMissed(t, lb) == Contains(t, <<"m", "i", "s", "s">>) \/ Contains(lb, <<"m", "i", "s", "s">>) \/ Contains(lb, <<"m", "i", "s", "s", "e", "d">>)

(* The direction of a call stays what the message's flag says *)
CallOutKept(missed, is_out) == is_out

(* The direction of a call: a missed call is never outgoing *)
CallOut(missed, is_out) == IF missed THEN FALSE ELSE is_out

CallBase(missed, is_out, is_video) ==
    IF missed THEN (IF is_video THEN <<"M", "i", "s", "s", "e", "d", " ", "v", "i", "d", "e", "o", " ", "c", "a", "l", "l">> ELSE <<"M", "i", "s", "s", "e", "d", " ", "v", "o", "i", "c", "e", " ", "c", "a", "l", "l">>)
    ELSE IF is_out THEN (IF is_video THEN <<"O", "u", "t", "g", "o", "i", "n", "g", " ", "v", "i", "d", "e", "o", " ", "c", "a", "l", "l">> ELSE <<"O", "u", "t", "g", "o", "i", "n", "g", " ", "v", "o", "i", "c", "e", " ", "c", "a", "l", "l">>)
    ELSE (IF is_video THEN <<"I", "n", "c", "o", "m", "i", "n", "g", " ", "v", "i", "d", "e", "o", " ", "c", "a", "l", "l">> ELSE <<"I", "n", "c", "o", "m", "i", "n", "g", " ", "v", "o", "i", "c", "e", " ", "c", "a", "l", "l">>)

(* The sender index built from the conversations: serviceId and e164 to  *)
(* the first name of their conversation                                   *)
SidAl == <<"s", "-", "a", "l">>
TelBo == <<"+", "1", "5", "5", "5", "0", "0", "0", "2">>
BySid == [x \in {SidAl} |-> <<"A", "l">>]
ByE164 == [x \in {TelBo} |-> <<"B", "o">>]

(* The separators of re.split in first_name: white space, bar, comma;   *)
(* the middle dot and the bullet are outside the alphabet of the model   *)
IsSep(c) == IsWhite(c) \/ c \in {"|", ","}

RECURSIVE UntilSep(_)
UntilSep(s) == IF s = <<>> \/ IsSep(Head(s)) THEN <<>> ELSE <<Head(s)>> \o UntilSep(Tail(s))

(* utils.first_name: parts[0] of the split of the stripped name, which is *)
(* empty when the stripped name begins with a separator                   *)
FirstName(full) == IF ~Truthy(full) THEN <<>> ELSE UntilSep(StripW(full))

ResolveSender(identifier) ==
    IF ~Truthy(identifier) THEN <<"o", "t", "h", "e", "r">>
    ELSE IF identifier \in DOMAIN BySid THEN BySid[identifier]
    ELSE IF identifier \in DOMAIN ByE164 THEN ByE164[identifier]
    ELSE Or(FirstName(identifier), identifier)

IsGroup(cid) == FALSE

(* A value of a column that holds integers or text, as Python sees it *)
PyInt(n) == [int |-> n]
PyStr(s) == [str |-> s]

(* The message built from row r when its id is first seen.  kind is      *)
(* "call" or "None"; video and missed read as False when absent.  The    *)
(* NULL of sent_at and of isChangeCreatedByUs is read as 0 by            *)
(* int(x or 0) and by x == 1, and is the 0 of the model.                 *)
InlineMessage(r) ==
    Bind(Lower(Or(r.mtype, <<>>)), LAMBDA t :
    Bind(Contains(t, <<"o", "u", "t">>) \/ r.is_me_change = 1, LAMBDA is_out :
    Bind(IF is_out THEN <<"m", "e">>
         ELSE ResolveSender(Or(r.msource_service, Or(r.msource, <<>>))), LAMBDA sender :
    Bind(StripW(Or(r.body, <<>>)), LAMBDA body_raw :
    Bind(Lower(body_raw), LAMBDA lb :
    Bind(LooksCall(t, lb), LAMBDA looks_call :
    Bind(IsVideo(t, lb), LAMBDA is_video :
    Bind(IsMissed(t, lb), LAMBDA missed :
        [id |-> r.mid,
         ts |-> r.sent_at,
         sender |-> sender,
         out |-> IF looks_call THEN CallOut(missed, is_out) ELSE is_out,
         body |-> IF looks_call THEN CallBase(missed, is_out, is_video) ELSE body_raw,
         atts |-> <<>>,
         group |-> IsGroup(r.cid),
         kind |-> IF looks_call THEN "call" ELSE "None",
         video |-> looks_call /\ is_video,
         missed |-> looks_call /\ missed]))))))))

----------------------------------------------------------------------------
(* The classification of one message, over types, bodies and flags *)

MsgTypes == {None, <<"i", "n", "c", "o", "m", "i", "n", "g">>, <<"o", "u", "t", "g", "o", "i", "n", "g">>, <<"c", "a", "l", "l", "-", "h", "i", "s", "t", "o", "r", "y">>,
             <<"M", "i", "s", "s", "e", "d", "-", "C", "a", "l", "l">>, <<"v", "i", "d", "e", "o", "-", "c", "a", "l", "l">>}
MsgBodies == {None, <<>>, <<"H", "e", "l", "l", "o">>, <<"T", "h", "a", "n", "k", "s", " ", "f", "o", "r", " ", "c", "a", "l", "l", "i", "n", "g", " ", "e", "a", "r", "l", "i", "e", "r">>,
              <<"M", "i", "s", "s", "e", "d", " ", "v", "i", "d", "e", "o", " ", "c", "a", "l", "l">>, <<"I", "n", "c", "o", "m", "i", "n", "g", " ", "v", "o", "i", "c", "e", " ", "c", "a", "l", "l">>, <<" ", " ", "c", "a", "l", "l", " ">>,
              <<"V", "i", "d", "e", "o">>, <<"a", "u", "d", "i", "o">>, <<"I", " ", "m", "i", "s", "s", " ", "y", "o", "u">>, <<"O", "u", "t", "g", "o", "i", "n", "g", " ", "c", "a", "l", "l">>,
              <<"v", "i", "d", "e", "o", " ", "c", "h", "a", "t", " ", "l", "a", "t", "e", "r">>}
MeChanges == {0, 1}

MsgRow(mid, cid, sent_at, mtype, body, me, sid) ==
    [mid |-> mid, cid |-> cid, sent_at |-> sent_at, mtype |-> mtype,
     msource |-> None, msource_service |-> sid, is_me_change |-> me, body |-> body]

InitCall ==
    /\ inp \in {MsgRow(PyInt(1), "c1", 7, ty, b, me, sid) :
                   ty \in MsgTypes, b \in MsgBodies, me \in MeChanges,
                   sid \in {None, SidAl}}
    /\ out = Idle
    /\ fs = EmptyTree
    /\ rows = <<>> /\ run = 0 /\ i = 0 /\ atts = <<>> /\ attempt = NoAttempt
    /\ writers = [p \in {} |-> {}] /\ snap = EmptyTree /\ probes = 0 /\ det = TRUE

Classify ==
    /\ out = Idle
    /\ "is_me_change" \in DOMAIN inp
    /\ \E o \in {InlineMessage(inp)} :
         out' = [done |-> TRUE, msg |-> o]
    /\ UNCHANGED <<fs, rows, run, i, atts, attempt, writers, snap, probes, det, inp>>

NextCall == Classify

SpecCall == InitCall /\ [][NextCall]_vars

----------------------------------------------------------------------------
(* run_export: the display label of a row of the conversations table,    *)
(* and utils.looks_unknown on the label of a thread                      *)

(* The first source chosen is the profile name *)
RawNameProfileFirst(row) ==
    Or(row.profileName, Or(row.name, Or(row.profileFullName,
    Or(row.e164, Or(row.serviceId, ConvPrefix \o row.id)))))

RawName(row) ==
    Or(row.name, Or(row.profileFullName, Or(row.profileName,
    Or(row.e164, Or(row.serviceId, ConvPrefix \o row.id)))))

GroupFlag(row) == StartsWith(Lower(Or(row.type, <<>>)), <<"g", "r", "o", "u", "p">>)

DisplayName(row) ==
    Bind(RawName(row), LAMBDA raw :
         IF GroupFlag(row) THEN raw ELSE Or(FirstName(raw), raw))

(* re.fullmatch(r"\+?\d[\d\s\-\(\)]{3,}", label) *)
IsPhoneChar(c) == IsDigit(c) \/ IsWhite(c) \/ c \in {"-", "(", ")"}
PhoneTail(s) == Len(s) >= 4 /\ IsDigit(s[1]) /\ \A k \in 2..Len(s) : IsPhoneChar(s[k])
MatchPhone(s) ==
    \/ PhoneTail(s)
    \/ (s # <<>> /\ Head(s) = "+" /\ PhoneTail(Tail(s)))

(* re.fullmatch(r"[0-9a-fA-F-]{8,}", label) *)
IsHexChar(c) == IsDigit(c) \/ c \in {"a", "b", "c", "d", "e", "f",
                                     "A", "B", "C", "D", "E", "F", "-"}
MatchHexId(s) == Len(s) >= 8 /\ \A k \in 1..Len(s) : IsHexChar(s[k])

LooksUnknown(label) ==
    \/ ~Truthy(label)
    \/ StartsWith(label, ConvPrefix)
    \/ MatchPhone(label)
    \/ MatchHexId(label)

(* The label of the thread of a conversation row, and its unknown flag *)
LabelOf(row) ==
    Bind(DisplayName(row), LAMBDA display :
    Bind(Safe(Or(display, ConvPrefix \o row.id)), LAMBDA label :
        [raw |-> RawName(row), group |-> GroupFlag(row), display |-> display,
         label |-> label, unknown |-> LooksUnknown(label)]))

----------------------------------------------------------------------------
(* The label of one conversation, over names, identifiers and types *)

ConvNames == {None, <<>>, <<"A", "l", "i", "c", "e", " ", "S", "m", "i", "t", "h">>, <<"+", "1", " ", "5", "5", "5", " ", "1", "2", "1", "2">>, <<",", " ", "B", "o", "b">>,
              <<"F", "a", "m", "|", "C", "h", "a", "t", ",", " ", "a", "l", "l">>}
ConvTypes == {None, <<"p", "r", "i", "v", "a", "t", "e">>, <<"G", "r", "o", "u", "p">>, <<"g", "r", "o", "u", "p", "v", "2">>}

ConvRow(id, name, pfn, pn, e164, sid, type) ==
    [id |-> id, name |-> name, profileFullName |-> pfn, profileName |-> pn,
     e164 |-> e164, serviceId |-> sid, type |-> type]

InitLabel ==
    /\ inp \in {ConvRow(<<"7">>, n, pfn, pn, tel, sid, ty) :
                   n \in ConvNames, pfn \in {None, <<"P", "a", "t", " ", "L", "e", "e">>},
                   pn \in {None, <<"P", "a", "t", "t", "y">>}, tel \in {None, TelBo},
                   sid \in {None, <<"0", "a", "1", "b", "2", "c", "3", "d", "-", "9", "f">>}, ty \in ConvTypes}
    /\ out = Idle
    /\ fs = EmptyTree
    /\ rows = <<>> /\ run = 0 /\ i = 0 /\ atts = <<>> /\ attempt = NoAttempt
    /\ writers = [p \in {} |-> {}] /\ snap = EmptyTree /\ probes = 0 /\ det = TRUE

Label ==
    /\ out = Idle
    /\ "profileFullName" \in DOMAIN inp
    /\ \E o \in {LabelOf(inp)} :
         out' = [done |-> TRUE, raw |-> o.raw, group |-> o.group,
                 display |-> o.display, label |-> o.label, unknown |-> o.unknown]
    /\ UNCHANGED <<fs, rows, run, i, atts, attempt, writers, snap, probes, det, inp>>

NextLabel == Label

SpecLabel == InitLabel /\ [][NextLabel]_vars

----------------------------------------------------------------------------
(* run_export: from the rows of the messages and of the callsHistory     *)
(* table to the threads written into the page                            *)

(* The characters of ids and labels in code point order *)
CodeOrder == <<" ", "+", ",", "-">> \o Digits \o UpperCase \o <<"_">> \o LowerCase
Code(c) == CHOOSE k \in 1..Len(CodeOrder) : CodeOrder[k] = c

(* a < b for two str *)
RECURSIVE TextLt(_, _)
TextLt(a, b) ==
    IF b = <<>> THEN FALSE
    ELSE IF a = <<>> THEN TRUE
    ELSE IF Head(a) = Head(b) THEN TextLt(Tail(a), Tail(b))
    ELSE Code(Head(a)) < Code(Head(b))

(* The stable sort of s by the strict order Lt *)
SortedBy(s, Lt(_, _)) ==
    [p \in 1..Len(s) |->
        s[CHOOSE k \in 1..Len(s) :
            p = 1 + Cardinality({j \in 1..Len(s) :
                       Lt(s[j], s[k]) \/ (~Lt(s[k], s[j]) /\ j < k)})]]

(* str(n) of a natural number *)
RECURSIVE Str(_)
Str(n) == IF n < 10 THEN <<Digits[n + 1]>>
          ELSE Str(n \div 10) \o <<Digits[(n % 10) + 1]>>

ConvIds == <<"c1", "c2", "c3">>
ConvRank(cid) == CHOOSE k \in 1..Len(ConvIds) : ConvIds[k] = cid

(* threads.setdefault(label, []).append(m), threads being a sequence of  *)
(* [label, msgs] in the order of insertion of the labels                 *)
HasThread(threads, label) == \E k \in 1..Len(threads) : threads[k].label = label
SetDefault(threads, label) ==
    IF HasThread(threads, label) THEN threads
    ELSE Append(threads, [label |-> label, msgs |-> <<>>])
AppendTo(threads, label, m) ==
    Bind(SetDefault(threads, label), LAMBDA th :
        [k \in 1..Len(th) |->
            IF th[k].label = label
            THEN [th[k] EXCEPT !.msgs = Append(th[k].msgs, m)]
            ELSE th[k]])

(* The loop over the rows of the messages query, each row carrying the   *)
(* attachment records its attachments resolved to                        *)
RECURSIVE MessageThreads(_, _)
MessageThreads(threads, msgs) ==
    IF msgs = <<>> THEN threads
    ELSE MessageThreads(
            AppendTo(threads, ThreadLabel(Head(msgs).cid),
                     [InlineMessage(Head(msgs)) EXCEPT !.atts = Head(msgs).atts]),
            Tail(msgs))

(* The columns of callsHistory the code looks for, in order of choice *)
CidCols == <<"conversationId", "cid", "threadId">>
TsCols == <<"timestamp", "startedAt", "startTimestamp", "sent_at", "time">>
TyCols == <<"type", "callType", "direction", "status">>
DuCols == <<"duration", "callDurationSeconds", "endedTimestamp">>
PeerCols == <<"peerId", "ringerId", "startedById">>

(* next((x for x in names if x in cols), None); a column that is None    *)
(* is written into the query as the word None                            *)
NextIn(names, cols) ==
    IF \E k \in 1..Len(names) : names[k] \in cols
    THEN names[CHOOSE k \in 1..Len(names) :
                  /\ names[k] \in cols
                  /\ \A j \in 1..(k - 1) : names[j] \notin cols]
    ELSE "None"

(* cur.execute of a SELECT over the named columns raises when the table  *)
(* has no column of one of the names                                     *)
SelectRaises(selected, cols) == \E c \in selected : c \notin cols

MillisFrom == 10000
CallTs(ts) == IF ts > MillisFrom THEN ts ELSE ts * 1000

CallWord == <<"C", "a", "l", "l">>
CallIdPrefix == <<"c", "a", "l", "l", "-">>

(* The record synthesized from a row of callsHistory *)
CallRecord(ctype, ts_raw, group) ==
    Bind(Lower(Or(ctype, <<>>)), LAMBDA t :
    Bind(Contains(t, <<"v", "i", "d", "e", "o">>), LAMBDA is_video :
    Bind(Contains(t, <<"m", "i", "s", "s">>), LAMBDA missed :
    Bind(Contains(t, <<"o", "u", "t">>) \/ Contains(t, <<"p", "l", "a", "c", "e", "d">>),
         LAMBDA outb0 :
    Bind(Contains(t, <<"i", "n">>) \/ Contains(t, <<"r", "e", "c", "e", "i", "v", "e", "d">>),
         LAMBDA inb :
    Bind(CallTs(ts_raw), LAMBDA ts :
        [id |-> PyStr(CallIdPrefix \o Str(ts)),
         ts |-> ts,
         sender |-> IF outb0 /\ ~missed THEN <<"m", "e">> ELSE <<>>,
         out |-> outb0 /\ ~missed,
         body |-> IF missed \/ outb0 \/ inb
                  THEN CallBase(missed, outb0, is_video) ELSE CallWord,
         atts |-> <<>>,
         group |-> group,
         kind |-> "call",
         video |-> is_video,
         missed |-> missed]))))))

ByCidTs(a, b) == \/ ConvRank(a.cid) < ConvRank(b.cid)
                 \/ (a.cid = b.cid /\ a.ts < b.ts)
ByTs(a, b) == a.ts < b.ts

RECURSIVE CallsByCid(_, _)
CallsByCid(threads, calls) ==
    IF calls = <<>> THEN threads
    ELSE CallsByCid(
            AppendTo(threads, ThreadLabel(Head(calls).cid),
                     CallRecord(Head(calls).ctype, Head(calls).ts, IsGroup(Head(calls).cid))),
            Tail(calls))

RECURSIVE CallsByPeer(_, _)
CallsByPeer(threads, calls) ==
    IF calls = <<>> THEN threads
    ELSE CallsByPeer(
            AppendTo(threads, Safe(Or(ResolveSender(Head(calls).pid), CallWord)),
                     CallRecord(Head(calls).ctype, Head(calls).ts, FALSE)),
            Tail(calls))

(* The callsHistory block: tbl is [exists, cols, calls] *)
CallThreads(threads, tbl) ==
    IF ~tbl.exists THEN [raised |-> FALSE, threads |-> threads]
    ELSE
    Bind(NextIn(CidCols, tbl.cols), LAMBDA col_cid :
    Bind(NextIn(TsCols, tbl.cols), LAMBDA col_ts :
    Bind(NextIn(TyCols, tbl.cols), LAMBDA col_ty :
    Bind(NextIn(DuCols, tbl.cols), LAMBDA col_du :
    Bind(NextIn(PeerCols, tbl.cols), LAMBDA col_peer :
        IF col_cid # "None" /\ col_ts # "None" /\ col_ty # "None"
        THEN IF SelectRaises({col_cid, col_ts, col_ty, col_du}, tbl.cols)
             THEN [raised |-> TRUE, threads |-> threads]
             ELSE [raised |-> FALSE,
                   threads |-> CallsByCid(threads, SortedBy(tbl.calls, ByCidTs))]
        ELSE IF col_peer # "None" /\ col_ts # "None" /\ col_ty # "None"
        THEN IF SelectRaises({col_peer, col_ts, col_ty, col_du}, tbl.cols)
             THEN [raised |-> TRUE, threads |-> threads]
             ELSE [raised |-> FALSE,
                   threads |-> CallsByPeer(threads, SortedBy(tbl.calls, ByTs))]
        ELSE [raised |-> FALSE, threads |-> threads])))))

(* Every message is kept *)
KeepAll(m) == TRUE

(* m["body"].strip() or any(a.get("path") for a in m["atts"]) *)
Keep(m) ==
    \/ StripW(m.body) # <<>>
    \/ \E k \in 1..Len(m.atts) : m.atts[k].path # NoPath

IsInt(v) == "int" \in DOMAIN v

(* (ts, id) < (ts, id) of two messages, as tuples compare; comparing an  *)
(* int with a str raises TypeError                                       *)
Mixed(a, b) == a.ts = b.ts /\ IsInt(a.id) # IsInt(b.id)
KeyLt(a, b) ==
    \/ a.ts < b.ts
    \/ /\ a.ts = b.ts
       /\ IsInt(a.id) = IsInt(b.id)
       /\ IF IsInt(a.id) THEN a.id.int < b.id.int ELSE TextLt(a.id.str, b.id.str)

(* arr.sort(key=lambda m: (m["ts"], m["id"])): a sort has to compare two *)
(* of the keys whose order nothing else decides                          *)
SortRaises(arr) == \E j, k \in 1..Len(arr) : Mixed(arr[j], arr[k])

LabelLt(a, b) == TextLt(Lower(a.label), Lower(b.label))

Shown(m) == [ts |-> m.ts, sender |-> m.sender, out |-> m.out, body |-> m.body,
             atts |-> m.atts, group |-> m.group, kind |-> m.kind,
             video |-> m.video, missed |-> m.missed]

(* Filter, sort, and the list written into the page; ids is the list of  *)
(* the ids of the messages shown, which the page does not carry          *)
Assembled(threads) ==
    Bind([k \in 1..Len(threads) |->
            [threads[k] EXCEPT !.msgs = SelectSeq(threads[k].msgs, Keep)]], LAMBDA kept :
        IF \E k \in 1..Len(kept) : SortRaises(kept[k].msgs)
        THEN [raised |-> TRUE, data |-> <<>>]
        ELSE
        Bind([k \in 1..Len(kept) |->
                [kept[k] EXCEPT !.msgs = SortedBy(kept[k].msgs, KeyLt)]], LAMBDA sorted :
        Bind(SelectSeq(SortedBy(sorted, LabelLt), LAMBDA th : th.msgs # <<>>), LAMBDA shown :
            [raised |-> FALSE,
             data |-> [k \in 1..Len(shown) |->
                         [thread |-> shown[k].label,
                          unknown |-> LooksUnknown(shown[k].label),
                          messages |-> [n \in 1..Len(shown[k].msgs) |-> Shown(shown[k].msgs[n])],
                          ids |-> [n \in 1..Len(shown[k].msgs) |-> shown[k].msgs[n].id]]]])))

----------------------------------------------------------------------------
(* The threads of one database, over its messages and its calls table *)

MaxMsgs == 2
MaxCalls == 2

AttBlank == Blank([fileName |-> None])
AttDoc == [AttBlank EXCEPT !.path = Path(<<"A", "l">>, NameDoc)]

ThreadMsg(mid, cid, sent_at, mtype, body, recs) ==
    MsgRow(mid, cid, sent_at, mtype, body, 0, SidAl) @@ [atts |-> recs]

MsgPool ==
    {ThreadMsg(PyInt(1), "c1", 5000, <<"i", "n", "c", "o", "m", "i", "n", "g">>, <<"H", "e", "l", "l", "o">>, <<>>),
     ThreadMsg(PyInt(2), "c1", 5000, <<"i", "n", "c", "o", "m", "i", "n", "g">>, <<>>, <<AttBlank>>),
     ThreadMsg(PyInt(3), "c1", 20000, <<"o", "u", "t", "g", "o", "i", "n", "g">>, None, <<AttBlank, AttDoc>>),
     ThreadMsg(PyStr(<<"m", "4">>), "c1", 5000, <<"i", "n", "c", "o", "m", "i", "n", "g">>, <<"M", "i", "s", "s", "e", "d", " ", "c", "a", "l", "l">>, <<>>),
     ThreadMsg(PyInt(5), "c2", 20000, <<"i", "n", "c", "o", "m", "i", "n", "g">>, <<" ", " ">>, <<>>),
     ThreadMsg(PyStr(<<"a", "6">>), "c3", 20000, <<"c", "a", "l", "l", "-", "h", "i", "s", "t", "o", "r", "y">>, <<"I", "n", "c", "o", "m", "i", "n", "g", " ", "v", "o", "i", "c", "e", " ", "c", "a", "l", "l">>, <<>>),
     ThreadMsg(PyInt(7), "c2", 5000, <<"o", "u", "t", "g", "o", "i", "n", "g">>, <<"H", "i">>, <<>>)}

(* The rows of the messages query come ordered by conversation and time *)
MsgSeqs(n) ==
    {s \in UNION {[1..k -> MsgPool] : k \in 0..n} :
        \A j, k \in 1..Len(s) : j < k =>
            /\ s[j].mid # s[k].mid
            /\ ~ByCidTs([cid |-> s[k].cid, ts |-> s[k].sent_at],
                        [cid |-> s[j].cid, ts |-> s[j].sent_at])}

CallRow(cid, pid, ts, ctype) == [cid |-> cid, pid |-> pid, ts |-> ts, ctype |-> ctype]

CallPool ==
    {CallRow("c1", SidAl, 5, <<"i", "n", "c", "o", "m", "i", "n", "g">>),
     CallRow("c1", SidAl, 5, <<"M", "i", "s", "s", "e", "d", "_", "V", "i", "d", "e", "o">>),
     CallRow("c1", TelBo, 20000, <<"o", "u", "t", "g", "o", "i", "n", "g">>),
     CallRow("c2", None, 20000, <<"b", "u", "s", "y">>),
     CallRow("c3", <<"z", "e", "d", " ", "k">>, 0, None),
     CallRow("c2", SidAl, 20001, <<"p", "l", "a", "c", "e", "d", " ", "v", "i", "d", "e", "o">>)}

CallSeqs(n) == UNION {[1..k -> CallPool] : k \in 0..n}

ColSets == {{"conversationId", "timestamp", "type", "duration"},
            {"conversationId", "timestamp", "type"},
            {"peerId", "startedAt", "callType", "callDurationSeconds"},
            {"ringerId", "time", "status"},
            {"threadId", "peerId", "sent_at", "direction", "endedTimestamp"},
            {"cid", "timestamp", "duration"}}

Tables(n) ==
    {[exists |-> FALSE, cols |-> {}, calls |-> <<>>]} \cup
    [exists : {TRUE}, cols : ColSets, calls : CallSeqs(n)]

Started(o) == "phase" \in DOMAIN o

InitThreads ==
    /\ inp \in [msgs : MsgSeqs(MaxMsgs), tbl : Tables(MaxCalls)]
    /\ out = Idle
    /\ fs = EmptyTree
    /\ rows = <<>> /\ run = 0 /\ i = 0 /\ atts = <<>> /\ attempt = NoAttempt
    /\ writers = [p \in {} |-> {}] /\ snap = EmptyTree /\ probes = 0 /\ det = TRUE

ReadMessages ==
    /\ out = Idle
    /\ "msgs" \in DOMAIN inp
    /\ \E o \in {MessageThreads(<<>>, inp.msgs)} :
         out' = [done |-> FALSE, phase |-> "messages", raised |-> FALSE,
                 threads |-> o, data |-> <<>>]
    /\ UNCHANGED <<fs, rows, run, i, atts, attempt, writers, snap, probes, det, inp>>

ReadCalls ==
    /\ Started(out) /\ out.phase = "messages"
    /\ \E o \in {CallThreads(out.threads, inp.tbl)} :
         out' = [done |-> o.raised, phase |-> "calls", raised |-> o.raised,
                 threads |-> o.threads, data |-> <<>>]
    /\ UNCHANGED <<fs, rows, run, i, atts, attempt, writers, snap, probes, det, inp>>

Assemble ==
    /\ Started(out) /\ out.phase = "calls" /\ ~out.raised
    /\ \E o \in {Assembled(out.threads)} :
         out' = [done |-> TRUE, phase |-> "assembled", raised |-> o.raised,
                 threads |-> out.threads, data |-> o.data]
    /\ UNCHANGED <<fs, rows, run, i, atts, attempt, writers, snap, probes, det, inp>>

NextThreads == ReadMessages \/ ReadCalls \/ Assemble

SpecThreads == InitThreads /\ [][NextThreads]_vars

----------------------------------------------------------------------------
(* Where a file of the tree lies: d = ASSETS / label, dest = d / name,   *)
(* with ".." and "." resolved as the file system resolves them           *)

Up == <<".", ".">>
Here == <<".">>
OutDir == <<<<"O", "U", "T">>>>
AssetsDir == OutDir \o <<<<"a", "s", "s", "e", "t", "s">>>>

RECURSIVE Normal(_, _)
Normal(parts, acc) ==
    IF parts = <<>> THEN acc
    ELSE IF Head(parts) = Up
         THEN Normal(Tail(parts), IF acc = <<>> THEN <<>> ELSE SubSeq(acc, 1, Len(acc) - 1))
    ELSE IF Head(parts) = Here THEN Normal(Tail(parts), acc)
    ELSE Normal(Tail(parts), Append(acc, Head(parts)))

Location(p) == Normal(AssetsDir \o <<p.dir, p.name>>, <<>>)

InsideAssets(p) ==
    Bind(Location(p), LAMBDA loc :
         Len(loc) > Len(AssetsDir) /\ SubSeq(loc, 1, Len(AssetsDir)) = AssetsDir)

----------------------------------------------------------------------------
(* The attachment part on one row, over labels and declared names *)

FrameRows == {Row(c, n, rel, k[1], k[2]) :
                c \in {"c1", "c3", "c4", "c5"}, n \in {None, NameDoc, Up},
                rel \in {SrcA, SrcP, SrcGone},
                k \in {<<StrA, None>>, <<None, None>>, <<StrShort, StrB>>}}

InitFrame ==
    /\ inp \in FrameRows
    /\ out = Idle
    /\ fs = EmptyTree
    /\ rows = <<>> /\ run = 0 /\ i = 0 /\ atts = <<>> /\ attempt = NoAttempt
    /\ writers = [p \in {} |-> {}] /\ snap = EmptyTree /\ probes = 0 /\ det = TRUE

ExportOne ==
    /\ out = Idle
    /\ "relPath" \in DOMAIN inp
    /\ \E e \in Envs :
       \E o \in {ExportAttachment(fs, inp, e)} :
         /\ fs' = o.tree
         /\ out' = [done |-> TRUE, written |-> o.written, atts |-> o.atts]
    /\ UNCHANGED <<rows, run, i, atts, attempt, writers, snap, probes, det, inp>>

NextFrame == ExportOne

SpecFrame == InitFrame /\ [][NextFrame]_vars

----------------------------------------------------------------------------
(* cli: the environment file, the process environment and the flags.    *)
(* An environment is a function from the names of the variables to their *)
(* values, None for a variable that is not set; the file is the          *)
(* KEY=VALUE pairs of its lines, None for a key it does not give.        *)

EnvKeys == {"HOME", "DB", "SRC", "OUT", "HTML_OUT", "DB_OUT"}

(* os.environ.get(key) *)
Get(environ, key) == environ[key]

(* load_env_file: a key of the file is set only when the process does   *)
(* not have it already                                                   *)
LoadEnvFile(environ, dotenv) ==
    [k \in EnvKeys |-> IF dotenv[k] # None /\ environ[k] = None THEN dotenv[k]
                       ELSE environ[k]]

(* default_src_path, on a system that is neither darwin nor windows *)
DefaultSrcPath(home) == home \o <<"/", ".", "c", "o", "n", "f", "i", "g", "/", "S", "i", "g", "n", "a", "l", "/", "a", "t", "t", "a", "c", "h", "m", "e", "n", "t", "s", ".", "n", "o", "i", "n", "d", "e", "x">>

ProjectArtifacts == <<"/", "r", "e", "p", "o", "/", ".", "a", "r", "t", "i", "f", "a", "c", "t", "s">>

(* resolve_paths: flag, then variable, then default *)
ResolvePaths(args, environ) ==
    Bind(Or(Get(environ, "HOME"), ProjectArtifacts), LAMBDA home :
    Bind(Or(Get(environ, "DB_OUT"), home), LAMBDA db_out :
    Bind(Or(Get(environ, "HTML_OUT"),
            Or(Get(environ, "OUT"), home \o <<"/", "s", "i", "g", "n", "a", "l", "_", "e", "x", "p", "o", "r", "t", "_", "h", "t", "m", "l">>)), LAMBDA html_out :
        [db |-> Or(args.db, Or(Get(environ, "DB"), db_out \o <<"/", "s", "i", "g", "n", "a", "l", "_", "p", "l", "a", "i", "n", ".", "s", "q", "l", "i", "t", "e">>)),
         src |-> Or(args.src, Or(Get(environ, "SRC"), DefaultSrcPath(home))),
         out |-> Or(args.out, html_out)])))

(* The values each source may give: a flag, a line of the file, a       *)
(* variable of the process                                               *)
FlagVal(k) == CASE k = "db" -> <<"/", "f", "l", "a", "g", "/", "d", "b">> [] k = "src" -> <<"/", "f", "l", "a", "g", "/", "s", "r", "c">>
                [] OTHER -> <<"/", "f", "l", "a", "g", "/", "o", "u", "t">>
FileVal(k) == CASE k = "DB" -> <<"/", "f", "i", "l", "e", "/", "d", "b">> [] k = "SRC" -> <<"/", "f", "i", "l", "e", "/", "s", "r", "c">>
                [] k = "OUT" -> <<"/", "f", "i", "l", "e", "/", "o", "u", "t">> [] OTHER -> <<"/", "f", "i", "l", "e", "/", "h", "t", "m", "l">>
ProcVal(k) == CASE k = "DB" -> <<"/", "p", "r", "o", "c", "/", "d", "b">> [] k = "SRC" -> <<"/", "p", "r", "o", "c", "/", "s", "r", "c">>
                [] k = "OUT" -> <<"/", "p", "r", "o", "c", "/", "o", "u", "t">> [] k = "HOME" -> <<"/", "h", "o", "m", "e", "/", "u">>
                [] OTHER -> <<"/", "p", "r", "o", "c", "/", "h", "t", "m", "l">>

Given == {"DB", "SRC", "OUT", "HTML_OUT"}

CliArgs == {[k \in {"db", "src", "out"} |-> IF k \in s THEN FlagVal(k) ELSE None] :
              s \in SUBSET {"db", "src", "out"}}
DotEnvs == {[k \in EnvKeys |-> IF k \in s THEN FileVal(k) ELSE None] :
              s \in SUBSET Given}
Environs == {[k \in EnvKeys |-> IF k \in s \/ k = "HOME" THEN ProcVal(k) ELSE None] :
               s \in SUBSET Given}

InitCli ==
    /\ inp \in [args : CliArgs, dotenv : DotEnvs, environ : Environs]
    /\ out = Idle
    /\ fs = EmptyTree
    /\ rows = <<>> /\ run = 0 /\ i = 0 /\ atts = <<>> /\ attempt = NoAttempt
    /\ writers = [p \in {} |-> {}] /\ snap = EmptyTree /\ probes = 0 /\ det = TRUE

(* main, line 105 *)
MainLoad ==
    /\ out = Idle
    /\ "dotenv" \in DOMAIN inp
    /\ \E o \in {LoadEnvFile(inp.environ, inp.dotenv)} :
         out' = [done |-> FALSE, phase |-> "loaded", environ |-> o]
    /\ UNCHANGED <<fs, rows, run, i, atts, attempt, writers, snap, probes, det, inp>>

(* main, line 107 *)
MainResolve ==
    /\ "phase" \in DOMAIN out /\ out.phase = "loaded"
    /\ "dotenv" \in DOMAIN inp
    /\ \E o \in {ResolvePaths(inp.args, out.environ)} :
         out' = [done |-> TRUE, phase |-> "resolved", environ |-> out.environ,
                 db |-> o.db, src |-> o.src, out |-> o.out]
    /\ UNCHANGED <<fs, rows, run, i, atts, attempt, writers, snap, probes, det, inp>>

NextCli == MainLoad \/ MainResolve

SpecCli == InitCli /\ [][NextCli]_vars

----------------------------------------------------------------------------
(* tools/decrypt_assets.py: the audit of the asset tree *)

(* guess_mime of the tool: the extension, else the magic prefix *)
ToolGuessMime(tree, p) ==
    Bind(GuessType(p.name), LAMBDA m :
    Bind(IF m = "" THEN SniffHead(tree[p].head) ELSE "", LAMBDA sniffed :
        IF sniffed # "" THEN sniffed
        ELSE IF m # "" THEN m ELSE OctetStream))

LooksEncrypted(tree, p) ==
    IF ~tree[p].ok \/ tree[p].len = 0 THEN FALSE
    ELSE IF \/ StartsWith(tree[p].head, MagicPNG)
            \/ StartsWith(tree[p].head, MagicJPEG)
            \/ StartsWith(tree[p].head, MagicPDF)
            \/ Prefix(tree[p].head, 6) \in {MagicGIF87, MagicGIF89}
         THEN FALSE
    ELSE ToolGuessMime(tree, p) = OctetStream /\ tree[p].ent > EntropyThreshold

(* try_gcm, try_cbc: dst is written only with the output of a run that  *)
(* exits with status 0 and is not empty                                  *)
ToolTry(tree, f, dst, minLen, plain) ==
    IF tree[f].len < minLen THEN [ok |-> FALSE, tree |-> tree]
    ELSE IF plain # NoFile /\ plain.len > 0
         THEN [ok |-> TRUE, tree |-> Put(tree, dst, plain)]
    ELSE [ok |-> FALSE, tree |-> tree]

TryGcm(tree, f, dst, key32) == ToolTry(tree, f, dst, GcmMinLen, GcmPlain(key32, tree[f]))
TryCbc(tree, f, dst, key32) == ToolTry(tree, f, dst, CbcMinLen, CbcPlain(key32, tree[f]))

(* best_key: localKey, then key; base64, else hex; 32 bytes or more *)
BestKey(row) == ExtractKey(row.localKey, row.key)

(* f.name.split("_", 1)[-1] *)
RECURSIVE AfterUnderscore(_)
AfterUnderscore(s) ==
    IF s = <<>> THEN <<>>
    ELSE IF Head(s) = "_" THEN Tail(s) ELSE AfterUnderscore(Tail(s))

DeclaredName(fname) ==
    IF \E k \in 1..Len(fname) : fname[k] = "_" THEN AfterUnderscore(fname) ELSE fname

NoRow == [fileName |-> None, path |-> None, localKey |-> None, key |-> None]

(* The first row of the key map with the file name *)
RowFor(dbrows, name) ==
    IF \E k \in 1..Len(dbrows) : dbrows[k].fileName = name
    THEN dbrows[CHOOSE k \in 1..Len(dbrows) :
                   /\ dbrows[k].fileName = name
                   /\ \A j \in 1..(k - 1) : dbrows[j].fileName # name]
    ELSE NoRow

(* The limit is passed by one attempt *)
LimitReachedLate(limit, attempted) == limit # 0 /\ attempted > limit

(* "if LIMIT and attempted >= LIMIT" *)
LimitReached(limit, attempted) == limit # 0 /\ attempted >= limit

AuditLine(p, enc, mode, preview, mime, error) ==
    [path |-> p, enc |-> enc, mode |-> mode, preview |-> preview, mime |-> mime,
     error |-> error]

(* The attempt on f with a key: GCM, then CBC *)
AuditAttempt(tree, f, key) ==
    Bind(Path(f.dir, DecPrefix \o DeclaredName(f.name)), LAMBDA dst :
    Bind(TryGcm(tree, f, dst, key), LAMBDA g :
    Bind(IF g.ok THEN g ELSE TryCbc(g.tree, f, dst, key), LAMBDA c :
        [tree |-> c.tree, attempted |-> 1,
         line |-> IF c.ok
                  THEN AuditLine(f, 1, IF g.ok THEN "gcm" ELSE "cbc", dst,
                                 ToolGuessMime(c.tree, dst), "")
                  ELSE AuditLine(f, 1, "", NoPath, ToolGuessMime(c.tree, f),
                                 "decrypt-failed")])))

(* One pass of the loop over the assets, lines 145-191 *)
AuditFile(tree, dbrows, limit, attempted, f) ==
    IF ~LooksEncrypted(tree, f)
    THEN [tree |-> tree, attempted |-> 0,
          line |-> AuditLine(f, 0, "", NoPath, ToolGuessMime(tree, f), "")]
    ELSE Bind(RowFor(dbrows, DeclaredName(f.name)), LAMBDA db_row :
         IF db_row = NoRow
         THEN [tree |-> tree, attempted |-> 0,
               line |-> AuditLine(f, 1, "", NoPath, ToolGuessMime(tree, f), "no-db-row")]
         ELSE IF BestKey(db_row) = NoBytes
         THEN [tree |-> tree, attempted |-> 0,
               line |-> AuditLine(f, 1, "", NoPath, ToolGuessMime(tree, f), "no-key")]
         ELSE IF LimitReached(limit, attempted)
         THEN [tree |-> tree, attempted |-> 0,
               line |-> AuditLine(f, 1, "", NoPath, ToolGuessMime(tree, f),
                                  "limit-reached")]
         ELSE AuditAttempt(tree, f, BestKey(db_row)))

(* The assets of a tree, in the order of their paths, and the rows of    *)
(* message_attachments                                                   *)
AssetDir == <<"A", "l">>
AssetPool ==
    <<[name |-> <<"1", "_", "d", "o", "c">>, file |-> CtA],
      [name |-> <<"2", "_", "m", "o", "r", "e", "_", "d", "o", "c">>, file |-> CtA],
      [name |-> <<"3", "_", "m", "e", "m", "o">>, file |-> CtB],
      [name |-> <<"4", "_", "j", "u", "n", "k">>, file |-> Garbage],
      [name |-> <<"5", "_", "l", "o", "s", "t">>, file |-> CtA],
      [name |-> <<"6", "_", "b", "a", "r", "e">>, file |-> CtB],
      [name |-> <<"7", "_", "p", "i", "c">>, file |-> PlainPng]>>

AuditRow(n, rel, lk, k) == [fileName |-> n, path |-> rel, localKey |-> lk, key |-> k]
AuditRows ==
    <<AuditRow(<<"d", "o", "c">>, <<"a", "/", "1">>, StrA, None),
      AuditRow(<<"m", "o", "r", "e", "_", "d", "o", "c">>, <<"a", "/", "2">>, None, StrA),
      AuditRow(<<"m", "e", "m", "o">>, <<"b", "/", "2">>, StrShort, StrA),
      AuditRow(<<"j", "u", "n", "k">>, <<"c", "/", "3">>, StrA, None),
      AuditRow(<<"b", "a", "r", "e">>, <<"d", "/", "4">>, None, StrShort)>>

MaxLimit == 2

AssetLists == {SelectSeq(AssetPool, LAMBDA a : a.name \in s) :
                 s \in SUBSET {AssetPool[k].name : k \in 1..Len(AssetPool)}}

TreeOf(assets) ==
    [p \in {Path(AssetDir, assets[k].name) : k \in 1..Len(assets)} |->
        (CHOOSE a \in {assets[k] : k \in 1..Len(assets)} : a.name = p.name).file]

InitAudit ==
    /\ inp \in [assets : AssetLists \ {<<>>}, limit : 0..MaxLimit, avail : BOOLEAN]
    /\ out = Idle
    /\ fs = TreeOf(inp.assets)
    /\ rows = <<>> /\ run = 0 /\ i = 0 /\ atts = <<>> /\ attempt = NoAttempt
    /\ writers = [p \in {} |-> {}] /\ snap = EmptyTree /\ probes = 0 /\ det = TRUE

(* main up to the loop: without the primitive the tool exits at once *)
AuditStart ==
    /\ out = Idle
    /\ "limit" \in DOMAIN inp
    /\ out' = [done |-> ~inp.avail, k |-> 1, attempted |-> 0, audit |-> <<>>,
               exit |-> IF inp.avail THEN 0 ELSE 1]
    /\ UNCHANGED <<fs, rows, run, i, atts, attempt, writers, snap, probes, det, inp>>

AuditNext ==
    /\ "audit" \in DOMAIN out
    /\ ~out.done
    /\ \E o \in {AuditFile(fs, AuditRows, inp.limit, out.attempted,
                           Path(AssetDir, inp.assets[out.k].name))} :
         /\ fs' = o.tree
         /\ out' = [out EXCEPT !.k = out.k + 1,
                               !.attempted = out.attempted + o.attempted,
                               !.audit = Append(out.audit, o.line),
                               !.done = (out.k + 1 > Len(inp.assets))]
    /\ UNCHANGED <<rows, run, i, atts, attempt, writers, snap, probes, det, inp>>

NextAudit == AuditStart \/ AuditNext

SpecAudit == InitAudit /\ [][NextAudit]_vars

----------------------------------------------------------------------------
(* tools/sanitize_db.py.  A database: the rows of conversations and of   *)
(* messages, the number of rows of message_attachments, and whether the  *)
(* messages table has the columns the tool selects.  A JSON object: the  *)
(* keys of its top level and those of its profileAvatar.                 *)

NoDb == [convs |-> <<>>, msgs |-> <<>>, atts |-> -1, cols |-> FALSE]

JsonObj(top, pa) == [top |-> top, pa |-> pa]

(* load_json(None): "s or {}" *)
LoadJsonNone == JsonObj({}, {})

ScrubKeys == {"name", "profileFullName", "profileName", "e164", "serviceId",
              "avatarPath", "profileAvatarPath"}
ScrubAvatarKeys == {"path", "avatarPath", "filePath", "localKey", "key", "profileKey",
                    "keyMaterial"}

ScrubConversationJson(obj) == JsonObj(obj.top \ ScrubKeys, obj.pa \ ScrubAvatarKeys)

(* What make_person_name, make_group_name and synthetic_body may give *)
PersonNames == {<<"A", "l", "e", "x", " ", "K", "i", "m">>, <<"M", "a", "y", "a", " ", "C", "h", "e", "n">>}
GroupNames == {<<"T", "h", "e", " ", "L", "a", "b">>}
SynthBodies == {<<"Y", "e", "p">>, <<"G", "o", "t", " ", "i", "t", ".", " ", "N", "o", "p", "e">>}

(* classify_conversations: more than one sender that is not the owner *)
Senders(db, cid) ==
    {Or(db.msgs[k].sourceServiceId, Or(db.msgs[k].source, <<"o", "t", "h", "e", "r">>)) :
        k \in {j \in 1..Len(db.msgs) : db.msgs[j].cid = cid /\ db.msgs[j].me # 1}}

ClassifyGroup(db, cid) == Cardinality(Senders(db, cid)) > 1

LabelsFor(db, cid) == IF ClassifyGroup(db, cid) THEN GroupNames ELSE PersonNames

(* The updates and the delete of the transaction, lines 156-179, with    *)
(* the labels and the bodies the generator gives                         *)
SanitizedDb(db, labels, bodies) ==
    [convs |-> [k \in 1..Len(db.convs) |->
                  [db.convs[k] EXCEPT !.name = labels[k], !.e164 = None,
                                      !.serviceId = None,
                                      !.json = ScrubConversationJson(LoadJsonNone)]],
     msgs |-> [k \in 1..Len(db.msgs) |->
                  [db.msgs[k] EXCEPT !.body = bodies[k], !.source = None,
                                     !.sourceServiceId = None]],
     atts |-> 0,
     cols |-> db.cols]

(* The source databases *)
MaxSanRows == 2

SanConv(id, name, tel, sid, top) ==
    [id |-> id, name |-> name, e164 |-> tel, serviceId |-> sid, json |-> JsonObj(top, {"path"})]
SanConvs == <<SanConv("c1", <<"R", "e", "a", "l", " ", "P", "e", "r", "s", "o", "n">>, TelBo, SidAl, {"profileAvatarPath", "profileKey"}),
              SanConv("c2", <<"F", "a", "m", "i", "l", "y">>, None, None, {})>>
SanMsg(id, cid, source, sid, me, body) ==
    [id |-> id, cid |-> cid, source |-> source, sourceServiceId |-> sid, me |-> me,
     body |-> body]
SanMsgPool == {SanMsg(0, "c2", TelBo, None, 0, <<"s", "e", "c", "r", "e", "t">>),
               SanMsg(0, "c2", None, SidAl, 0, <<"a", "d", "d", "r", "e", "s", "s">>),
               SanMsg(0, "c1", None, None, 1, <<"h", "e", "l", "l", "o">>)}

SanMsgSeqs(n) ==
    {[k \in 1..Len(s) |-> [s[k] EXCEPT !.id = k]] :
        s \in UNION {[1..m -> SanMsgPool] : m \in 0..n}}

SanDbs(n) ==
    {[convs |-> SubSeq(SanConvs, 1, c), msgs |-> m, atts |-> a, cols |-> ok] :
        c \in 1..Min(n, Len(SanConvs)), m \in SanMsgSeqs(n), a \in {0, 1}, ok \in BOOLEAN}

InitSanitize ==
    /\ inp \in [db : SanDbs(MaxSanRows), exists : BOOLEAN]
    /\ out = Idle
    /\ fs = EmptyTree
    /\ rows = <<>> /\ run = 0 /\ i = 0 /\ atts = <<>> /\ attempt = NoAttempt
    /\ writers = [p \in {} |-> {}] /\ snap = EmptyTree /\ probes = 0 /\ det = TRUE

(* main, lines 132-139: the output begins as a copy of the source *)
SanitizeCopy ==
    /\ out = Idle
    /\ "db" \in DOMAIN inp
    /\ out' = IF inp.exists
              THEN [done |-> FALSE, phase |-> "copied", dst |-> inp.db, exit |-> 0]
              ELSE [done |-> TRUE, phase |-> "no-source", dst |-> NoDb, exit |-> 1]
    /\ UNCHANGED <<fs, rows, run, i, atts, attempt, writers, snap, probes, det, inp>>

(* main, lines 141-196: the transaction; a statement that fails rolls it *)
(* back and the tool exits with status 2                                 *)
SanitizeRun ==
    /\ "phase" \in DOMAIN out /\ out.phase = "copied"
    /\ "db" \in DOMAIN inp
    /\ IF ~out.dst.cols
       THEN out' = [out EXCEPT !.done = TRUE, !.phase = "rolled-back", !.exit = 2]
       ELSE \E labels \in [1..Len(out.dst.convs) -> PersonNames \cup GroupNames],
               bodies \in [1..Len(out.dst.msgs) -> SynthBodies] :
              /\ \A k \in 1..Len(labels) : labels[k] \in LabelsFor(out.dst, out.dst.convs[k].id)
              /\ out' = [out EXCEPT !.done = TRUE, !.phase = "committed",
                                    !.dst = SanitizedDb(out.dst, labels, bodies)]
    /\ UNCHANGED <<fs, rows, run, i, atts, attempt, writers, snap, probes, det, inp>>

NextSanitize == SanitizeCopy \/ SanitizeRun

SpecSanitize == InitSanitize /\ [][NextSanitize]_vars

----------------------------------------------------------------------------
(* Properties *)

LastAtt == atts[Len(atts)]
RecognizedMagic(head) ==
    \/ StartsWith(head, MagicPNG)
    \/ StartsWith(head, MagicJPEG)
    \/ Prefix(head, 6) \in {MagicGIF87, MagicGIF89}
    \/ (StartsWith(head, MagicRIFF) /\ Contains(head, MarkWEBP))
    \/ StartsWith(head, MagicPDF)

(* C1: every attachment record that reports a decrypted path (it has an   *)
(* originalPath beside its path) has likelyEncrypted false; and the       *)
(* record of a decryption that just succeeded carries the decrypted path, *)
(* the MIME type sniffed from the decrypted file and the icon of that     *)
(* MIME type: a decrypted PNG is an image/png with the image icon.        *)
C1_DecryptedIsClear ==
    /\ \A k \in 1..Len(atts) :
          atts[k].originalPath # NoPath =>
             /\ ~atts[k].likelyEncrypted
             /\ atts[k].path # atts[k].originalPath
    /\ (attempt.made /\ attempt.result # NoPath) =>
          /\ LastAtt.path = attempt.result
          /\ LastAtt.originalPath = attempt.src
          /\ ~LastAtt.likelyEncrypted
          /\ LastAtt.mime = GuessMime(fs, attempt.result)
          /\ LastAtt.icon = IconForMime(GuessMime(fs, attempt.result))
          /\ (fs[attempt.result].tag = "png" =>
                 LastAtt.mime = "image/png" /\ LastAtt.icon = "image")

(* A ciphertext whose verbatim copy sniffs as octet-stream was decrypted  *)
(* to a PNG, and the record says image/png.                               *)
C1_Witness ==
    /\ attempt.made /\ attempt.result # NoPath
    /\ GuessMime(fs, attempt.src) = OctetStream
    /\ LastAtt.path = attempt.result
    /\ LastAtt.mime = "image/png"

(* C2: in a decryption attempt the first unpacking entered is GCM; CBC   *)
(* is entered only second and only after GCM failed; when GCM succeeds   *)
(* nothing else is entered and the file returned is the GCM plaintext,   *)
(* also when CBC would have produced a file.                             *)
C2_GcmBeforeCbc ==
    out.done =>
       /\ (out.log # <<>> => out.log[1].mode = "gcm")
       /\ \A k \in 1..Len(out.log) :
             out.log[k].mode = "cbc" => k = 2 /\ ~out.log[1].ok
       /\ (out.log # <<>> /\ out.log[1].ok) =>
             /\ Len(out.log) = 1
             /\ out.result = ProbeDst
             /\ ProbeDst \in DOMAIN fs
             /\ fs[ProbeDst] = GcmPlain(out.key, inp.file)

(* GCM succeeded on a ciphertext that CBC would have unpacked too *)
C2_Witness ==
    /\ out.done /\ out.log # <<>> /\ out.log[1].ok
    /\ CbcPlain(out.key, inp.file) # NoFile
    /\ CbcPlain(out.key, inp.file) # GcmPlain(out.key, inp.file)

(* C3: every file that is in the output tree when a run starts is still  *)
(* there, with the same content, when the run ends.                      *)
C3_ExistingFilesKept ==
    RunDone => \A p \in DOMAIN snap : p \in DOMAIN fs /\ fs[p] = snap[p]

C5_OneWriterPerFile ==
    \A p \in DOMAIN writers :
       \A a, b \in writers[p] : rows[a].relPath = rows[b].relPath

(* C6: a decryption attempt raises nothing; when it returns no result,   *)
(* no file is at the destination it opened for writing, and when an      *)
(* unpacking raised, none at all; when it returns a path, that file      *)
(* exists and is not empty; the source is never touched.                 *)
C6_NoExceptionNoPartial ==
    out.done =>
       /\ ~out.raised
       /\ (out.result = NoPath /\ out.wrote) => ProbeDst \notin DOMAIN fs
       /\ (out.result = NoPath /\ out.log # <<>> /\ "raise" \in {out.env.gcm, out.env.cbc})
             => ProbeDst \notin DOMAIN fs
       /\ out.result # NoPath =>
             /\ out.result = ProbeDst
             /\ ProbeDst \in DOMAIN fs
             /\ fs[ProbeDst].len > 0
       /\ ProbeSrc \in DOMAIN fs /\ fs[ProbeSrc] = inp.file

(* The CBC unpacking raised after the GCM unpacking had failed, the      *)
(* attempt returned nothing and left nothing behind                      *)
C6_Witness ==
    /\ out.done /\ out.wrote /\ out.result = NoPath
    /\ Len(out.log) = 2
    /\ out.env.cbc = "raise"
    /\ ProbeDst \notin DOMAIN fs

(* C7: a readable file that begins with a recognized magic prefix (PNG,  *)
(* JPEG, GIF87a/GIF89a, RIFF with WEBP, %PDF) is never judged encrypted, *)
(* whatever its name and entropy.                                        *)
C7_MagicNeverEncrypted ==
    (out.done /\ inp.there /\ inp.ok /\ RecognizedMagic(inp.file.head)) => ~out.enc

(* C8: the heuristic is true only for a readable file that sniffs as     *)
(* application/octet-stream and whose entropy is above 7.4; at 7.4 or    *)
(* below, and for an empty, missing or unreadable file, it is false.     *)
C8_TrueOnlyOctetAndHigh ==
    out.done =>
       /\ out.enc => /\ inp.there /\ inp.ok
                     /\ out.mime = OctetStream
                     /\ inp.file.ent > EntropyThreshold
       /\ (inp.file.ent <= EntropyThreshold \/ inp.file.len = 0
             \/ ~inp.there \/ ~inp.ok) => ~out.enc

(* An octet-stream file without magic at exactly 7.4: not encrypted *)
C8_Witness ==
    /\ out.done /\ inp.there /\ inp.ok
    /\ ~RecognizedMagic(inp.file.head)
    /\ out.mime = OctetStream
    /\ inp.file.ent = EntropyThreshold
    /\ ~out.enc

(* C9: the key used is the first 32 bytes of the decoding of localKey    *)
(* when that has at least 32 bytes, else of key when that has; with      *)
(* neither, there is no key, no unpacking is entered, nothing is         *)
(* returned and the tree is untouched.                                   *)
Decoded(s) == IF Truthy(s) THEN B64OrHexToBytes(s) ELSE NoBytes
LongEnough(s) == Decoded(s) # NoBytes /\ Len(Decoded(s)) >= KeyLen

C9_FirstLongCandidate ==
    (out.done /\ out.env.avail) =>
       /\ LongEnough(inp.local_key) =>
             out.key = SubSeq(Decoded(inp.local_key), 1, KeyLen)
       /\ (~LongEnough(inp.local_key) /\ LongEnough(inp.key_alt)) =>
             out.key = SubSeq(Decoded(inp.key_alt), 1, KeyLen)
       /\ (~LongEnough(inp.local_key) /\ ~LongEnough(inp.key_alt)) =>
             /\ out.key = NoBytes
             /\ out.log = <<>>
             /\ out.result = NoPath
             /\ fs = KeyTree(inp)
       /\ (LongEnough(inp.local_key) \/ LongEnough(inp.key_alt)) => out.log # <<>>

(* The first candidate decodes to 30 bytes, the second to a key that     *)
(* differs from what the first would give, and the second is used        *)
C9_Witness ==
    /\ out.done /\ out.env.avail
    /\ inp.local_key = StrShort
    /\ inp.key_alt = StrB
    /\ out.key = KeyB
    /\ out.log # <<>>

(* C10: the two keys returned are never the same value twice, and when   *)
(* the containers hold two different non-empty strings in key fields,    *)
(* both are returned.                                                    *)
KeyStrings(obj) ==
    {obj[c].d[f].s : <<c, f>> \in {sl \in Range(Containers) \X Range(KeyFields) :
                                      /\ obj[sl[1]].t = "dict"
                                      /\ IsStr(obj[sl[1]].d[sl[2]])
                                      /\ obj[sl[1]].d[sl[2]].s # <<>>}}

C10_TwoDistinctKeys ==
    (out.done /\ inp.kind = "obj") =>
       /\ (Truthy(out.key1) /\ Truthy(out.key2)) => out.key1 # out.key2
       /\ Cardinality(KeyStrings(inp.obj)) >= 2 =>
             /\ Truthy(out.key1) /\ Truthy(out.key2)
             /\ {out.key1, out.key2} \subseteq KeyStrings(inp.obj)

(* C11: a message is a call event exactly when its lower-cased type has  *)
(* "call" in it, or its stripped lower-cased body has one of the call    *)
(* phrases in it or is "call", "audio" or "video"; a message that is not *)
(* a call event keeps its (stripped) body.                               *)
TypeOf(r) == Lower(Or(r.mtype, <<>>))
BodyOf(r) == StripW(Or(r.body, <<>>))

C11_CallIffTypeOrPhrase ==
    out.done =>
       /\ out.msg.kind = "call" <=>
             \/ Contains(TypeOf(inp), <<"c", "a", "l", "l">>)
             \/ \E k \in 1..Len(CallPatterns) : Contains(Lower(BodyOf(inp)), CallPatterns[k])
             \/ Lower(BodyOf(inp)) \in {<<"c", "a", "l", "l">>, <<"a", "u", "d", "i", "o">>, <<"v", "i", "d", "e", "o">>}
       /\ out.msg.kind # "call" => out.msg.body = BodyOf(inp)

(* "Thanks for calling earlier" of type incoming stays a plain message *)
C11_Witness ==
    /\ out.done
    /\ inp.body = <<"T", "h", "a", "n", "k", "s", " ", "f", "o", "r", " ", "c", "a", "l", "l", "i", "n", "g", " ", "e", "a", "r", "l", "i", "e", "r">>
    /\ inp.mtype = <<"i", "n", "c", "o", "m", "i", "n", "g">>
    /\ out.msg.kind = "None"
    /\ out.msg.body = <<"T", "h", "a", "n", "k", "s", " ", "f", "o", "r", " ", "c", "a", "l", "l", "i", "n", "g", " ", "e", "a", "r", "l", "i", "e", "r">>

(* C12: for a message that is a call event, video is true exactly when   *)
(* the type or the body has "video" in it, missed exactly when the type  *)
(* or the body has "miss" in it; a missed call is never outgoing, even   *)
(* when the message's outgoing flag is set; a call that is not missed    *)
(* has the direction of that flag, and its body names that direction.    *)
FlagOf(r) == Contains(TypeOf(r), <<"o", "u", "t">>) \/ r.is_me_change = 1

C12_VideoMissedDirection ==
    (out.done /\ out.msg.kind = "call") =>
       /\ out.msg.video <=> \/ Contains(TypeOf(inp), <<"v", "i", "d", "e", "o">>)
                            \/ Contains(Lower(BodyOf(inp)), <<"v", "i", "d", "e", "o">>)
       /\ out.msg.missed <=> \/ Contains(TypeOf(inp), <<"m", "i", "s", "s">>)
                             \/ Contains(Lower(BodyOf(inp)), <<"m", "i", "s", "s">>)
       /\ out.msg.missed => ~out.msg.out
       /\ ~out.msg.missed => out.msg.out = FlagOf(inp)
       /\ (inp.mtype = <<"c", "a", "l", "l", "-", "h", "i", "s", "t", "o", "r", "y">> /\ inp.body = <<"I", "n", "c", "o", "m", "i", "n", "g", " ", "v", "o", "i", "c", "e", " ", "c", "a", "l", "l">>) =>
             /\ ~out.msg.video /\ ~out.msg.missed
             /\ out.msg.body = IF FlagOf(inp) THEN <<"O", "u", "t", "g", "o", "i", "n", "g", " ", "v", "o", "i", "c", "e", " ", "c", "a", "l", "l">>
                               ELSE <<"I", "n", "c", "o", "m", "i", "n", "g", " ", "v", "o", "i", "c", "e", " ", "c", "a", "l", "l">>

(* "Missed video call" with the outgoing flag set: missed, video and     *)
(* not outgoing                                                          *)
C12_Witness ==
    /\ out.done
    /\ inp.body = <<"M", "i", "s", "s", "e", "d", " ", "v", "i", "d", "e", "o", " ", "c", "a", "l", "l">>
    /\ inp.is_me_change = 1
    /\ out.msg.kind = "call"
    /\ out.msg.missed /\ out.msg.video /\ ~out.msg.out
    /\ out.msg.body = <<"M", "i", "s", "s", "e", "d", " ", "v", "i", "d", "e", "o", " ", "c", "a", "l", "l">>

(* C13: every call event of the output, inline or synthesized from the   *)
(* calls table, has one of the six bodies {Missed, Outgoing, Incoming} x *)
(* {voice, video} call, the one its missed, out and video flags name.    *)
Canonical(m) == m.body = CallBase(m.missed, m.out, m.video)

C13_CallBodiesCanonical ==
    (Started(out) /\ out.done /\ ~out.raised) =>
       \A k \in 1..Len(out.data) : \A n \in 1..Len(out.data[k].messages) :
          out.data[k].messages[n].kind = "call" => Canonical(out.data[k].messages[n])

(* C14: in the output no thread has a message with a blank body and no   *)
(* attachment with a path, and no thread without messages appears.       *)
Blankish(m) == /\ StripW(m.body) = <<>>
               /\ \A k \in 1..Len(m.atts) : m.atts[k].path = NoPath

C14_NoBlankMessageNoEmptyThread ==
    (Started(out) /\ out.done /\ ~out.raised) =>
       \A k \in 1..Len(out.data) :
          /\ out.data[k].messages # <<>>
          /\ \A n \in 1..Len(out.data[k].messages) : ~Blankish(out.data[k].messages[n])

(* "Hello" in one conversation and a single blank message in another:   *)
(* one thread with one message is written                                *)
C14_Witness ==
    /\ Started(out) /\ out.done /\ ~out.raised
    /\ ~inp.tbl.exists
    /\ Len(inp.msgs) = 2
    /\ inp.msgs[1].mid = PyInt(1) /\ inp.msgs[2].mid = PyInt(5)
    /\ inp.msgs[2].cid = "c2" /\ StripW(inp.msgs[2].body) = <<>>
    /\ Len(out.data) = 1
    /\ Len(out.data[1].messages) = 1
    /\ out.data[1].messages[1].body = <<"H", "e", "l", "l", "o">>

(* C15: whatever inline messages and synthesized call records a          *)
(* conversation has, records with the same timestamp included, the       *)
(* assembly of the threads completes, and the messages of every thread   *)
(* of the output are in ascending order of (timestamp, message id).      *)
C15_AssemblyCompletesInOrder ==
    (Started(out) /\ out.phase = "assembled") =>
       /\ ~out.raised
       /\ \A k \in 1..Len(out.data) : \A n \in 1..(Len(out.data[k].messages) - 1) :
             ~KeyLt([ts |-> out.data[k].messages[n + 1].ts, id |-> out.data[k].ids[n + 1]],
                    [ts |-> out.data[k].messages[n].ts, id |-> out.data[k].ids[n]])

(* C16: when the calls table has a conversation-id, a timestamp and a    *)
(* type column, or a peer-id, a timestamp and a type column, under any   *)
(* of the recognized names, reading it does not abort the run, and every *)
(* row of the table gives one call record in some thread, whatever other *)
(* columns the table has or lacks.                                       *)
HasOneOf(names, cols) == \E k \in 1..Len(names) : names[k] \in cols
Recognized(cols) ==
    /\ HasOneOf(TsCols, cols) /\ HasOneOf(TyCols, cols)
    /\ (HasOneOf(CidCols, cols) \/ HasOneOf(PeerCols, cols))
Count(threads) ==
    Cardinality({p \in (1..Len(threads)) \X (1..(MaxMsgs + MaxCalls)) :
                    p[2] <= Len(threads[p[1]].msgs)})
CallCount(threads) ==
    Cardinality({p \in (1..Len(threads)) \X (1..(MaxMsgs + MaxCalls)) :
                    /\ p[2] <= Len(threads[p[1]].msgs)
                    /\ StartsWith(IF IsInt(threads[p[1]].msgs[p[2]].id) THEN <<>>
                                  ELSE threads[p[1]].msgs[p[2]].id.str, CallIdPrefix)})

C16_RecognizedColumnsNeverAbort ==
    (Started(out) /\ out.phase = "calls" /\ inp.tbl.exists /\ Recognized(inp.tbl.cols)) =>
       /\ ~out.raised
       /\ Count(out.threads) = Len(inp.msgs) + Len(inp.tbl.calls)
       /\ CallCount(out.threads) = Len(inp.tbl.calls)

(* C17: the unknown flag of a thread is the one computed on its final    *)
(* label; it is true for a conversation whose raw name is a bare         *)
(* phone-number-like string and false for one with a readable name.      *)
C17_PhoneLikeIsUnknown ==
    out.done =>
       /\ out.unknown = LooksUnknown(out.label)
       /\ MatchPhone(out.raw) => out.unknown
       /\ out.raw = <<"A", "l", "i", "c", "e", " ", "S", "m", "i", "t", "h">> => ~out.unknown

(* C18: the raw label of a conversation is its first non-empty source    *)
(* in the order name, profileFullName, profileName, e164, serviceId,     *)
(* "conv:<row id>"; a group keeps the raw label verbatim; any other      *)
(* conversation keeps the first token of the stripped raw label, or the  *)
(* whole raw label when that token is empty (the stripped label begins   *)
(* with a separator).                                                    *)
Sources(row) == <<row.name, row.profileFullName, row.profileName,
                   row.e164, row.serviceId, ConvPrefix \o row.id>>
FirstSource(row) ==
    Sources(row)[CHOOSE k \in 1..6 : /\ Truthy(Sources(row)[k])
                                     /\ \A j \in 1..(k - 1) : ~Truthy(Sources(row)[j])]
IsGroupType(row) == row.type # None /\ Len(row.type) >= 5 /\
                    Lower(SubSeq(row.type, 1, 5)) = <<"g", "r", "o", "u", "p">>
FirstToken(s) == UntilSep(StripW(s))

C18_LabelPriorityAndToken ==
    out.done =>
       /\ out.raw = FirstSource(inp)
       /\ IsGroupType(inp) => out.display = out.raw
       /\ ~IsGroupType(inp) =>
             out.display = IF FirstToken(out.raw) # <<>> THEN FirstToken(out.raw)
                           ELSE out.raw

(* A private conversation named ", Bob" with a profile full name: the   *)
(* name wins, its first token is empty and the whole name is kept        *)
C18_Witness ==
    /\ out.done
    /\ inp.name = <<",", " ", "B", "o", "b">> /\ inp.profileFullName = <<"P", "a", "t", " ", "L", "e", "e">>
    /\ inp.type = <<"p", "r", "i", "v", "a", "t", "e">>
    /\ out.raw = <<",", " ", "B", "o", "b">>
    /\ out.display = <<",", " ", "B", "o", "b">>

(* C18 as stated: any conversation that is not a group keeps only the    *)
(* first token of its raw label.                                         *)
C18_OnlyFirstToken ==
    (out.done /\ ~IsGroupType(inp)) =>
       /\ \A k \in 1..Len(out.display) : ~IsSep(out.display[k])
       /\ out.display # <<>>

Attached(k) == Truthy(rows[k].relPath)

(* Every row with an attachment has given one record: no failure stops   *)
(* the pass                                                              *)
C19_EveryRowEmitted ==
    Len(atts) = Cardinality({k \in 1..(i - 1) : Attached(k)})

(* A row whose source is missing gives a record without a path; a       *)
(* decryption that failed leaves the verbatim copy with the encrypted    *)
(* flag set, or a record without a path                                  *)
C19_DegradedShape ==
    /\ (i > 1 /\ Attached(i - 1) /\ rows[i - 1].relPath \notin DOMAIN Store) =>
          LastAtt = Blank(rows[i - 1])
    /\ (attempt.made /\ attempt.result = NoPath) =>
          /\ LastAtt.originalPath = NoPath
          /\ \/ LastAtt.path = NoPath
             \/ LastAtt.path = attempt.src /\ LastAtt.likelyEncrypted

(* The files of the records emitted so far are in the tree *)
C19_OthersUntouched ==
    \A k \in 1..Len(atts) : atts[k].path # NoPath => atts[k].path \in DOMAIN fs

(* C19: a failure on one record never stops the pass and degrades only   *)
(* that record: every row with an attachment gives one record, a missing *)
(* source, a failed copy or a failed decryption gives a record without a *)
(* path or the verbatim copy with the encrypted flag set, and the        *)
(* records of the other rows keep their files.                           *)
C19_FailureDegradesOneRecord ==
    /\ C19_EveryRowEmitted
    /\ C19_DegradedShape
    /\ C19_OthersUntouched

(* C20: the primitive's availability is probed once in a run, not once  *)
(* for every attachment.                                                 *)
C20_ProbedOncePerRun == probes <= 1

(* The last attempt found the primitive missing: best_effort_decrypt was *)
(* called on a copy that exists, with a candidate that decodes to a key, *)
(* and returned before it extracted the key                              *)
PrimitiveMissing ==
    /\ attempt.made
    /\ attempt.src \in DOMAIN fs
    /\ attempt.key = NoBytes
    /\ ExtractKey(attempt.local_key, attempt.key_alt) # NoBytes

(* C21: a missing primitive is fatal: the run in which the primitive     *)
(* could not be invoked aborts, it never completes its pass.             *)
C21_MissingPrimitiveAborts == PrimitiveMissing => ~RunDone

(* C22: every file the attachment part creates, overwrites or deletes    *)
(* lies inside the destination asset directory, whatever the             *)
(* conversation label and the declared file name.                        *)
C22_WritesInsideAssets ==
    out.done => \A p \in out.written \cup DOMAIN fs : InsideAssets(p)

(* The type the prefix of the readable bytes of the sniffed file stands  *)
(* for, "" when there is none or the bytes cannot be had                 *)
MagicOf(in) ==
    IF ~(in.there /\ in.ok) THEN ""
    ELSE IF StartsWith(in.file.head, MagicPNG) THEN "image/png"
    ELSE IF StartsWith(in.file.head, MagicJPEG) THEN "image/jpeg"
    ELSE IF StartsWith(in.file.head, MagicGIF87) \/ StartsWith(in.file.head, MagicGIF89)
         THEN "image/gif"
    ELSE IF StartsWith(in.file.head, MagicRIFF) /\ Contains(in.file.head, MarkWEBP)
         THEN "image/webp"
    ELSE IF StartsWith(in.file.head, MagicPDF) THEN "application/pdf"
    ELSE ""

(* C23: the MIME type is the one of the file-name extension when the     *)
(* lookup gives one; otherwise the one of the magic prefix of the bytes  *)
(* when they can be read and begin with PNG, JPEG, GIF87a/89a, RIFF with *)
(* WEBP, or PDF; otherwise application/octet-stream.  A file that is     *)
(* absent or cannot be read gives the extension's type or the default.   *)
C23_SniffOrder ==
    out.done =>
        /\ out.mime # ""
        /\ GuessType(inp.name) # "" => out.mime = GuessType(inp.name)
        /\ (GuessType(inp.name) = "" /\ MagicOf(inp) # "") => out.mime = MagicOf(inp)
        /\ (GuessType(inp.name) = "" /\ MagicOf(inp) = "") => out.mime = OctetStream

(* A file without extension whose bytes begin with RIFF and hold WEBP    *)
C23_Witness ==
    /\ out.done
    /\ GuessType(inp.name) = ""
    /\ inp.there /\ inp.ok
    /\ StartsWith(inp.file.head, MagicRIFF)
    /\ out.mime = "image/webp"

(* The first of the values that is given *)
FirstGiven(vals) ==
    IF \E k \in 1..Len(vals) : vals[k] # None
    THEN vals[CHOOSE k \in 1..Len(vals) : vals[k] # None /\ \A j \in 1..(k - 1) : vals[j] = None]
    ELSE None

(* C24: the database, the attachment directory and the output directory *)
(* take the flag when it is given, else the value of the environment     *)
(* file, else the value of the process environment, else the default.    *)
C24_FlagsFileProcessDefaults ==
    out.done =>
        /\ FirstGiven(<<inp.args.db, inp.dotenv["DB"], inp.environ["DB"]>>) # None =>
              out.db = FirstGiven(<<inp.args.db, inp.dotenv["DB"], inp.environ["DB"]>>)
        /\ FirstGiven(<<inp.args.src, inp.dotenv["SRC"], inp.environ["SRC"]>>) # None =>
              out.src = FirstGiven(<<inp.args.src, inp.dotenv["SRC"], inp.environ["SRC"]>>)
        /\ inp.args.out # None => out.out = inp.args.out
        /\ (inp.args.out = None /\ inp.dotenv["HTML_OUT"] # None) =>
              out.out = inp.dotenv["HTML_OUT"]
        /\ (inp.args.out = None /\ inp.dotenv["HTML_OUT"] = None
              /\ inp.environ["HTML_OUT"] = None /\ inp.dotenv["OUT"] # None) =>
              out.out = inp.dotenv["OUT"]

(* The text is the hexadecimal writing of at least KeyLen bytes *)
IsHexKey(s) ==
    /\ Truthy(s)
    /\ Len(s) >= 2 * KeyLen /\ Len(s) % 2 = 0
    /\ \A k \in 1..Len(s) : HexVal(s[k]) >= 0

(* C25: a candidate that is the hexadecimal encoding of a key of at      *)
(* least 32 bytes is accepted and gives the first 32 bytes of the key it *)
(* encodes.                                                              *)
C25_HexCandidateYieldsItsKey ==
    (out.done /\ out.env.avail /\ IsHexKey(inp.local_key)) =>
        out.key = SubSeq(FromHex(inp.local_key), 1, KeyLen)

(* The files scanned so far have one record each, in their order *)
C26_OneRecordPerFile ==
    /\ Len(out.audit) = out.k - 1
    /\ \A j \in 1..Len(out.audit) :
          out.audit[j].path = Path(AssetDir, inp.assets[j].name)

(* A mode and a plaintext path stand only in the record of a decryption  *)
(* that succeeded, whose plaintext is in the tree                        *)
C26_ModeOnlyOnSuccess ==
    \A j \in 1..Len(out.audit) :
        (out.audit[j].mode # "" \/ out.audit[j].preview # NoPath) =>
            /\ out.audit[j].mode \in {"gcm", "cbc"}
            /\ out.audit[j].error = ""
            /\ out.audit[j].enc = 1
            /\ out.audit[j].preview \in DOMAIN fs
            /\ fs[out.audit[j].preview].len > 0

Scrubbed(db) ==
    /\ \A k \in 1..Len(db.convs) :
          /\ db.convs[k].e164 = None /\ db.convs[k].serviceId = None
          /\ db.convs[k].name \in PersonNames \cup GroupNames
          /\ db.convs[k].json.top \cap {"avatarPath", "profileAvatarPath"} = {}
          /\ db.convs[k].json.pa \cap ScrubAvatarKeys = {}
    /\ \A k \in 1..Len(db.msgs) :
          /\ db.msgs[k].source = None /\ db.msgs[k].sourceServiceId = None
          /\ db.msgs[k].body \in SynthBodies
    /\ db.atts = 0

(* C27: every output database the sanitizer leaves behind is scrubbed:   *)
(* conversations without e164 and serviceId, with a synthetic name and a *)
(* JSON blob without avatar path or key fields, messages without source  *)
(* and sourceServiceId and with a synthetic body, no attachment rows.    *)
C27_OutputScrubbed ==
    (out.done /\ out.dst # NoDb) => Scrubbed(out.dst)

(* The rows that have an attachment, in the order of the pass: the j-th *)
(* of them gave the j-th record                                          *)
AttachedRows == SelectSeq([k \in 1..Len(rows) |-> k], LAMBDA k : Truthy(rows[k].relPath))

(* f is the blob of row r or what the primitive gives for that blob and *)
(* the key of r                                                          *)
OwnContent(r, f) ==
    /\ r.relPath \in DOMAIN Store
    /\ \/ f = Store[r.relPath]
       \/ /\ ExtractKey(r.localKey, r.key_alt) # NoBytes
          /\ f # NoFile
          /\ f \in {GcmPlain(ExtractKey(r.localKey, r.key_alt), Store[r.relPath]),
                    CbcPlain(ExtractKey(r.localKey, r.key_alt), Store[r.relPath])}

(* C28: at the end of a run every record with a path refers to a file   *)
(* of the output tree that holds the content of its own attachment, the  *)
(* verbatim copy or the decryption of its own source.                    *)
C28_PathHoldsOwnContent ==
    RunDone =>
        \A j \in 1..Len(atts) :
            atts[j].path # NoPath =>
                /\ atts[j].path \in DOMAIN fs
                /\ OwnContent(rows[AttachedRows[j]], fs[atts[j].path])

(* C29: the sender of an inline message is "me" exactly when the message *)
(* is marked outgoing; a missed call, which is never outgoing, does not  *)
(* carry the sender "me".                                                *)
C29_SenderMeIffOutgoing ==
    out.done => (out.msg.sender = <<"m", "e">> <=> out.msg.out)

(* The row has no name, profile name, phone number or service id *)
Nameless(row) ==
    /\ ~Truthy(row.name) /\ ~Truthy(row.profileFullName) /\ ~Truthy(row.profileName)
    /\ ~Truthy(row.e164) /\ ~Truthy(row.serviceId)

(* C30: a conversation without name, profile name, phone number and     *)
(* service id gets the fallback label built from its row id, and its     *)
(* thread is flagged unknown.                                            *)
C30_FallbackIsUnknown ==
    (out.done /\ Nameless(inp)) =>
        /\ out.raw = ConvPrefix \o inp.id
        /\ out.label = Safe(ConvPrefix \o inp.id)
        /\ out.unknown


====
